---- MODULE Spec2Model ----
(***************************************************************************)
(* Verification model of the agentcord daemon (zachthedev/agentcord).      *)
(*                                                                         *)
(* The module holds three state machines over one set of variables:        *)
(*   SpecPid     - single-instance enforcement through the PID file        *)
(*                 (cmd/agentcord: main, checkStalePID, writePID,          *)
(*                 removePID), one step per system call, any number of     *)
(*                 concurrently starting daemon processes;                 *)
(*   SpecWatcher - the session.Watcher goroutines, Close and notify;       *)
(*   SpecLoop    - the discord.Client and the daemon event loop (run,      *)
(*                 processState, handleIdleState, checkDaemonIdle,         *)
(*                 handleReconnect).                                       *)
(* Each specification leaves the variables of the other two untouched.     *)
(***************************************************************************)
EXTENDS Integers, Sequences, FiniteSets, TLC

(***************************************************************************)
(* Bounds of the model.                                                    *)
(***************************************************************************)
\* number of daemon processes started on the same data directory
MaxProcs == 2
\* number of writes to state files (each advances the newest mtime)
MaxWrites == 2
\* number of native events the fsnotify watcher holds ready
MaxFsQ == 2
\* number of concurrent callers of Watcher.Close
MaxClosers == 2
\* ages (in poll ticks) are counted up to this value
MaxAge == 3
\* the highest schema version a state file or a migration carries
MaxVersion == 3
\* how many times the hooks rewrite the state file in one run
MaxStoreWrites == 1
\* how many times ReadState is called in one run
MaxStoreReads == 2
\* the greatest lastActivity timestamp a state file carries
MaxStamp == 3
\* the greatest presence_idle_minutes a configuration sets
MaxIdleMinutes == 2
\* how many times connectToDiscord returns a connection in one run
MaxConnects == 2
\* how many goroutines call into one Client, and how many calls they make
MaxCallers == 2
MaxCalls == 3
MaxJsonlChanges == 3   \* changes of the file in SpecJsonl
MaxJsonlCalls == 3     \* calls of ParseJSONLCached in SpecJsonl
MaxJsonlLen == 6       \* bytes of the file in SpecJsonl
MaxMutations == 3     \* creates and writes of state files in SpecShutdown
FrameDelta == 1       \* how far around each boundary the lengths of SpecFrame go
MaxWriters == 2       \* processes writing the state file in SpecAtomic
MaxAtomicWrites == 3  \* writes started in SpecAtomic
MaxNow == 21          \* minutes of the clock in SpecCleanup
MaxCleanupCalls == 4  \* calls of cleanupOrphanedSessions in SpecCleanup

Procs == 1..MaxProcs
\* every process creates at most one file (O_CREATE in writePID); inode 1 is
\* the file a dead daemon may have left behind
Inodes == 1..(MaxProcs + 1)
NoInode == 0
NoProc == 0

VARIABLES
    \* ---- PID file (SpecPid) ----
    pc,         \* pc[p]: position of process p in main()
    fd,         \* fd[p]: the inode process p holds open (f *os.File), or NoInode
    pidPath,    \* the inode the name paths.PID() refers to, or NoInode
    content,    \* content[i]: the bytes of inode i, as <<pid, token>> or <<>>
    lockHolder, \* lockHolder[i]: the process holding the flock on inode i
    created,    \* number of inodes created so far
    readData,   \* readData[p]: what removePID's os.ReadFile returned
    exitCode,   \* exitCode[p]: -1 while the process lives, else its exit status
    exitWhy,    \* exitWhy[p]: the fatal path the process died on, "" otherwise
    \* ---- session.Watcher (SpecWatcher) ----
    wEvents,    \* number of signals pending in w.events (a channel of capacity 1)
    wDone,      \* TRUE once close(w.done) ran
    wFsw,       \* the field w.fsw: "set" or "nil"
    fswClosed,  \* how many times the fsnotify watcher's Close was called
    wPolling,   \* w.polling
    wOnce,      \* w.once: "fresh", "running" (its function is executing), "done"
    fsQ,        \* the native events the fsnotify watcher has ready on fsw.Events
    fsErr,      \* TRUE while an error is ready on fsw.Errors
    wg,         \* position of the watcher goroutine (watchDir, then pollDir)
    mtime,      \* newest modification time among the state files
    lastMod,    \* pollDir's local lastMod
    seenMod,    \* pollDir's local mod, as latestStateMod returned it
    cpc,        \* cpc[c]: position of caller c of Watcher.Close
    wPanic,     \* TRUE once a goroutine dereferenced a nil w.fsw
    wDropped,   \* TRUE when the last notify() found the slot full (default branch)
    \* ---- discord.Client and the event loop (SpecLoop) ----
    cfg,        \* the loaded configuration: idle_mode, presence_idle_minutes, daemon_idle_minutes
    cur,        \* the state findLatestState resolves (the newest state file), or NoState
    dclient,    \* *client: the discord.Client in use, [appID, conn]
    peerUp,     \* TRUE while the presence service accepts IPC connections
    ls,         \* loopState
    actCfg,     \* the fields of actCfg that processState rewrites
    lpc,        \* position of run(): "init", "select", "exited"
    obs,        \* observer: what the last loop step did (frames written, errors, ...)
    \* ---- session state store (SpecStore) ----
    stFile,     \* the bytes at the state path, or NoFile
    stCorrupted, \* the bytes at <path>.corrupted, or NoFile
    stBak,      \* stBak[N]: the bytes at <path>.v<N>.bak, or NoFile
    stMig,      \* StateMigrations, in registration order
    stPc,       \* position of ReadState
    stData,     \* ReadState's local data (the bytes os.ReadFile returned)
    stS,        \* ReadState's local s (the parsed State)
    stWrites,   \* how many times the state file was rewritten from outside
    stReads,    \* how many times ReadState was called
    stRes,      \* what the last ReadState returned, and what it did on the way
    \* ---- multi-client state resolution (SpecResolve) ----
    rsMatches,  \* what ReadState yields for each state.*.json, in the order of the glob
    rsLegacy,   \* what ReadState yields for the legacy state.json
    rsRest,     \* the matches the loop of findLatestState has not visited yet
    rsBest,     \* findLatestState's local best
    rsPc,       \* position of findLatestState
    rsResult,   \* what findLatestState returned
    \* ---- presentation engine (SpecBuild) ----
    bdState,    \* the State handed to BuildActivityWithData
    bdCfg,      \* the ActivityConfig handed to it
    bdPc,       \* "call" before the call, "returned" after it
    bdResult,   \* the *Activity it returned
    \* ---- IPC client handshake (SpecClient) ----
    hsConn,     \* c.conn: the endpoint handle the client holds, NoHandle for nil
    hsOpen,     \* the endpoint handles that are open
    hsHandles,  \* how many endpoint handles connectToDiscord has returned
    hsPeer,     \* how the peer behaved in the last Connect
    hsRet,      \* how the last call ended: "nil", "error", "panic", "closed"
    \* ---- IPC client under concurrent callers (SpecSend) ----
    snMu,       \* c.mu: the caller that holds it, NoCaller when free
    snConn,     \* c.conn: the endpoint handle, NoHandle for nil
    snOpen,     \* the endpoint handles that are open
    snHandles,  \* how many endpoint handles connectToDiscord has returned
    snNonce,    \* c.nonce
    snPc,       \* snPc[t]: where caller t is in its call
    snOp,       \* snOp[t]: the method caller t is in
    snLocal,    \* snLocal[t]: sendCommand's local nonce
    snCalls,    \* how many calls were made
    snWire,     \* the command frames written, in the order written
    \* ---- connect attempt chain (SpecRetry) ----
    crI,        \* connectWithRetry's loop variable i
    crPc,       \* where connectWithRetry, or the Connect it called, is
    crPeer,     \* how the peer behaves in the current attempt
    crAttempts, \* how many times client.Connect() was called
    crSleeps,   \* how many times time.Sleep(interval) was called
    crRet,      \* what connectWithRetry returned: "" while running, "nil", "error"
    \* ---- signal and shutdown sequence (SpecShutdown) ----
    sdPc,       \* where main/run is: select, process, connect, tail, returned, ...
    sdCase,     \* the select case being served: "event" or "tick"
    sdFrom,     \* who called Connect: "processState" or "handleReconnect"
    sdSig,      \* a signal is pending in sigCh
    sdPeer,     \* how the peer behaves in the Connect under way
    sdConn,     \* the client holds a connection
    sdWatcher,  \* "open" or "closed"
    sdCleared,  \* the best-effort clear of client.Close() was written
    sdPid,      \* the PID file: "locked", "unlocked", "removed"
    sdMtime,    \* creates and writes of state files so far
    sdSeen,     \* the value of sdMtime when the last resolve cycle started
    sdPending,  \* signals pending on watcher.Events(): 0 or 1
    \* ---- orphaned session markers (SpecCleanup) ----
    clNow,      \* minutes since run() started
    clLast,     \* ls.lastCleanup: ZeroTime or the minute it was set
    clFiles,    \* sessions directory: marker name -> "none", "fresh", "old"
    clDir,      \* the sessions directory exists
    clScans,    \* the minutes at which os.ReadDir(sessDir) was called
    clCalls,    \* calls of cleanupOrphanedSessions so far
    \* ---- temp file and rename (SpecAtomic) ----
    afDir,      \* data directory: name -> inode, AfNone when the name is free
    afIno,      \* inode -> bytes written to it (sequence of chunks)
    afW,        \* writer -> [pc, kind, rec, n]
    afWrites,   \* writes started so far
    afRdIno,    \* the inode the reader has open, AfNone when none
    afRead,     \* what the last os.ReadFile of the state file returned
    \* ---- frame codec (SpecFrame) ----
    frPc,       \* "start", "encoded", "received", "decoded"
    frIn,       \* the arguments of EncodeFrame, or what the peer declared
    frEnc,      \* what EncodeFrame returned
    frStream,   \* the bytes the reader of DecodeFrame supplies
    frDec,      \* what DecodeFrame returned
    \* ---- cached JSONL parsing (SpecJsonl) ----
    jlFile,     \* the bytes of the JSONL file at cache.path
    jlLastSize, \* cache.lastSize
    jlLastData, \* cache.lastData
    jlPc,       \* ParseJSONLCached: "idle" between calls, "scan" after f.Stat()
    jlSize,     \* currentSize of the call under way
    jlRes,      \* what the last call of ParseJSONLCached returned
    jlCalls,    \* calls of ParseJSONLCached so far
    jlChanges   \* changes of the file so far

pidVars == <<pc, fd, pidPath, content, lockHolder, created, readData, exitCode, exitWhy>>

watcherVars == <<wEvents, wDone, wFsw, fswClosed, wPolling, wOnce, fsQ, fsErr, wg,
                 mtime, lastMod, seenMod, cpc, wPanic, wDropped>>

loopVars == <<cfg, cur, dclient, peerUp, ls, actCfg, lpc, obs>>

storeVars == <<stFile, stCorrupted, stBak, stMig, stPc, stData, stS, stWrites, stReads, stRes>>

resolveVars == <<rsMatches, rsLegacy, rsRest, rsBest, rsPc, rsResult>>

buildVars == <<bdState, bdCfg, bdPc, bdResult>>

clientVars == <<hsConn, hsOpen, hsHandles, hsPeer, hsRet>>

sendVars ==
    <<snMu, snConn, snOpen, snHandles, snNonce, snPc, snOp, snLocal, snCalls, snWire>>

retryVars == <<crI, crPc, crPeer, crAttempts, crSleeps, crRet>>

cleanupVars == <<clNow, clLast, clFiles, clDir, clScans, clCalls>>

atomicVars == <<afDir, afIno, afW, afWrites, afRdIno, afRead>>

frameVars == <<frPc, frIn, frEnc, frStream, frDec>>

jsonlVars == <<jlFile, jlLastSize, jlLastData, jlPc, jlSize, jlRes, jlCalls, jlChanges>>

shutdownVars ==
    <<sdPc, sdCase, sdFrom, sdSig, sdPeer, sdConn, sdWatcher, sdCleared, sdPid,
      sdMtime, sdSeen, sdPending>>

vars ==
    <<pidVars, watcherVars, loopVars, storeVars, resolveVars, buildVars, clientVars,
      sendVars, retryVars, shutdownVars, cleanupVars, atomicVars, frameVars, jsonlVars>>

\* what the actions of one state machine leave alone
notPidVars ==
    <<watcherVars, loopVars, storeVars, resolveVars, buildVars, clientVars,
      sendVars, retryVars, shutdownVars, cleanupVars, atomicVars, frameVars, jsonlVars>>
notWatcherVars ==
    <<pidVars, loopVars, storeVars, resolveVars, buildVars, clientVars,
      sendVars, retryVars, shutdownVars, cleanupVars, atomicVars, frameVars, jsonlVars>>
notLoopVars ==
    <<pidVars, watcherVars, storeVars, resolveVars, buildVars, clientVars,
      sendVars, retryVars, shutdownVars, cleanupVars, atomicVars, frameVars, jsonlVars>>
notStoreVars ==
    <<pidVars, watcherVars, loopVars, resolveVars, buildVars, clientVars,
      sendVars, retryVars, shutdownVars, cleanupVars, atomicVars, frameVars, jsonlVars>>
notResolveVars ==
    <<pidVars, watcherVars, loopVars, storeVars, buildVars, clientVars,
      sendVars, retryVars, shutdownVars, cleanupVars, atomicVars, frameVars, jsonlVars>>
notBuildVars ==
    <<pidVars, watcherVars, loopVars, storeVars, resolveVars, clientVars,
      sendVars, retryVars, shutdownVars, cleanupVars, atomicVars, frameVars, jsonlVars>>
notClientVars ==
    <<pidVars, watcherVars, loopVars, storeVars, resolveVars, buildVars,
      sendVars, retryVars, shutdownVars, cleanupVars, atomicVars, frameVars, jsonlVars>>
notSendVars ==
    <<pidVars, watcherVars, loopVars, storeVars, resolveVars, buildVars, clientVars,
      retryVars, shutdownVars, cleanupVars, atomicVars, frameVars, jsonlVars>>
notRetryVars ==
    <<pidVars, watcherVars, loopVars, storeVars, resolveVars, buildVars, clientVars,
      sendVars, shutdownVars, cleanupVars, atomicVars, frameVars, jsonlVars>>
notShutdownVars ==
    <<pidVars, watcherVars, loopVars, storeVars, resolveVars, buildVars, clientVars,
      sendVars, retryVars, cleanupVars, atomicVars, frameVars, jsonlVars>>
notCleanupVars ==
    <<pidVars, watcherVars, loopVars, storeVars, resolveVars, buildVars, clientVars,
      sendVars, retryVars, shutdownVars, atomicVars, frameVars, jsonlVars>>
notAtomicVars ==
    <<pidVars, watcherVars, loopVars, storeVars, resolveVars, buildVars, clientVars,
      sendVars, retryVars, shutdownVars, cleanupVars, frameVars, jsonlVars>>
notFrameVars ==
    <<pidVars, watcherVars, loopVars, storeVars, resolveVars, buildVars, clientVars,
      sendVars, retryVars, shutdownVars, cleanupVars, atomicVars, jsonlVars>>
notJsonlVars ==
    <<pidVars, watcherVars, loopVars, storeVars, resolveVars, buildVars, clientVars,
      sendVars, retryVars, shutdownVars, cleanupVars, atomicVars, frameVars>>

(***************************************************************************)
(* PID management: src/unnamed/part_012 (cmd/agentcord/main.go).           *)
(***************************************************************************)

\* pidToken: 8 random bytes, hex encoded.  Two processes drawing the same 64
\* bit value is not modelled: the token of process p is p.  0 is the token
\* of a daemon that died before the model starts.
pidToken(p) == p
StaleToken == 0

\* fmt.Sprintf("%d:%s", os.Getpid(), token)
pidContent(p) == <<p, pidToken(p)>>

\* removePID's test on the bytes read: strings.SplitN(data, ":", 2) has two
\* parts and the second one is the token.
tokenMatches(data, token) == Len(data) = 2 /\ data[2] = token

\* lockFile: flock(LOCK_EX|LOCK_NB) succeeds iff no other open file
\* description holds the lock on the inode.
canLock(p, i) == lockHolder[i] \in {NoProc, p}

\* os.Exit / process death: the kernel closes the descriptor, which drops a
\* flock the process still holds.  Nothing else is cleaned up.
procExit(p, code, why) ==
    /\ pc' = [pc EXCEPT ![p] = "exited"]
    /\ exitCode' = [exitCode EXCEPT ![p] = code]
    /\ exitWhy' = [exitWhy EXCEPT ![p] = why]
    /\ fd' = [fd EXCEPT ![p] = NoInode]
    /\ lockHolder' = [i \in Inodes |-> IF lockHolder[i] = p THEN NoProc ELSE lockHolder[i]]

\* main: os.MkdirAll(paths.Root); a failure is fatal (exit 1).
main_mkdir(p) ==
    /\ pc[p] = "start"
    /\ \/ /\ pc' = [pc EXCEPT ![p] = "chk_open"]
          /\ UNCHANGED <<fd, lockHolder, exitCode, exitWhy>>
       \/ procExit(p, 1, "mkdir")
    /\ UNCHANGED <<pidPath, content, created, readData>>
    /\ UNCHANGED notPidVars

\* checkStalePID: os.OpenFile(paths.PID(), O_RDWR); no file: return (false, 0).
checkStalePID_open(p) ==
    /\ pc[p] = "chk_open"
    /\ IF pidPath = NoInode
         THEN /\ pc' = [pc EXCEPT ![p] = "setup"]
              /\ UNCHANGED fd
         ELSE /\ pc' = [pc EXCEPT ![p] = "chk_lock"]
              /\ fd' = [fd EXCEPT ![p] = pidPath]
    /\ UNCHANGED <<pidPath, content, lockHolder, created, readData, exitCode, exitWhy>>
    /\ UNCHANGED notPidVars

\* checkStalePID: lockFile(f).  Failure: another instance is alive, main prints
\* "daemon already running" and exits 1.  Success: the previous owner is dead.
checkStalePID_lock(p) ==
    /\ pc[p] = "chk_lock"
    /\ IF canLock(p, fd[p])
         THEN /\ lockHolder' = [lockHolder EXCEPT ![fd[p]] = p]
              /\ pc' = [pc EXCEPT ![p] = "chk_unlock"]
              /\ UNCHANGED <<fd, exitCode, exitWhy>>
         ELSE procExit(p, 1, "alive")
    /\ UNCHANGED <<pidPath, content, created, readData>>
    /\ UNCHANGED notPidVars

\* checkStalePID: unlockFile(f); f.Close().
checkStalePID_unlock(p) ==
    /\ pc[p] = "chk_unlock"
    /\ lockHolder' = [lockHolder EXCEPT ![fd[p]] = NoProc]
    /\ fd' = [fd EXCEPT ![p] = NoInode]
    /\ pc' = [pc EXCEPT ![p] = "chk_remove"]
    /\ UNCHANGED <<pidPath, content, created, readData, exitCode, exitWhy>>
    /\ UNCHANGED notPidVars

\* checkStalePID: os.Remove(paths.PID()) unlinks whatever the name refers to now.
checkStalePID_remove(p) ==
    /\ pc[p] = "chk_remove"
    /\ pidPath' = NoInode
    /\ pc' = [pc EXCEPT ![p] = "setup"]
    /\ UNCHANGED <<fd, content, lockHolder, created, readData, exitCode, exitWhy>>
    /\ UNCHANGED notPidVars

\* main between checkStalePID and writePID: default config, config.Load,
\* logger.NewLogger; a failure of either is fatal (exit 1).
main_setup(p) ==
    /\ pc[p] = "setup"
    /\ \/ /\ pc' = [pc EXCEPT ![p] = "wr_open"]
          /\ UNCHANGED <<fd, lockHolder, exitCode, exitWhy>>
       \/ procExit(p, 1, "setup")
    /\ UNCHANGED <<pidPath, content, created, readData>>
    /\ UNCHANGED notPidVars

\* writePID: os.OpenFile(paths.PID(), O_CREATE|O_RDWR).
writePID_open(p) ==
    /\ pc[p] = "wr_open"
    /\ IF pidPath = NoInode
         THEN /\ created < MaxProcs + 1
              /\ created' = created + 1
              /\ pidPath' = created + 1
              /\ content' = [content EXCEPT ![created + 1] = <<>>]
              /\ fd' = [fd EXCEPT ![p] = created + 1]
         ELSE /\ fd' = [fd EXCEPT ![p] = pidPath]
              /\ UNCHANGED <<created, pidPath, content>>
    /\ pc' = [pc EXCEPT ![p] = "wr_lock"]
    /\ UNCHANGED <<lockHolder, readData, exitCode, exitWhy>>
    /\ UNCHANGED notPidVars

\* writePID: lockFile(f); on failure f.Close(), an error, and main exits 1.
writePID_lock(p) ==
    /\ pc[p] = "wr_lock"
    /\ IF canLock(p, fd[p])
         THEN /\ lockHolder' = [lockHolder EXCEPT ![fd[p]] = p]
              /\ pc' = [pc EXCEPT ![p] = "wr_trunc"]
              /\ UNCHANGED <<fd, exitCode, exitWhy>>
         ELSE procExit(p, 1, "lock")
    /\ UNCHANGED <<pidPath, content, created, readData>>
    /\ UNCHANGED notPidVars

\* writePID: f.Truncate(0).
writePID_truncate(p) ==
    /\ pc[p] = "wr_trunc"
    /\ content' = [content EXCEPT ![fd[p]] = <<>>]
    /\ pc' = [pc EXCEPT ![p] = "wr_write"]
    /\ UNCHANGED <<fd, pidPath, lockHolder, created, readData, exitCode, exitWhy>>
    /\ UNCHANGED notPidVars

\* writePID: f.WriteString("<pid>:<token>"); the handle and the lock are kept.
writePID_write(p) ==
    /\ pc[p] = "wr_write"
    /\ content' = [content EXCEPT ![fd[p]] = pidContent(p)]
    /\ pc' = [pc EXCEPT ![p] = "pricing"]
    /\ UNCHANGED <<fd, pidPath, lockHolder, created, readData, exitCode, exitWhy>>
    /\ UNCHANGED notPidVars

\* main: pricing.Fetch; no pricing data at all is fatal: os.Exit(1), which
\* does not run the deferred removePID.
main_pricing(p) ==
    /\ pc[p] = "pricing"
    /\ \/ /\ pc' = [pc EXCEPT ![p] = "connect"]
          /\ UNCHANGED <<fd, lockHolder, exitCode, exitWhy>>
       \/ procExit(p, 1, "pricing")
    /\ UNCHANGED <<pidPath, content, created, readData>>
    /\ UNCHANGED notPidVars

\* main: connectWithRetry(client); when all attempts fail: os.Exit(1), which
\* does not run the deferred removePID.  Otherwise the watcher is created and
\* run() is entered.
main_connect(p) ==
    /\ pc[p] = "connect"
    /\ \/ /\ pc' = [pc EXCEPT ![p] = "running"]
          /\ UNCHANGED <<fd, lockHolder, exitCode, exitWhy>>
       \/ procExit(p, 1, "connect")
    /\ UNCHANGED <<pidPath, content, created, readData>>
    /\ UNCHANGED notPidVars

\* run() returns (signal, daemon idle timeout, failed reconnect); main's
\* deferred calls run; removePID starts with unlockFile(f); f.Close().
removePID_unlock(p) ==
    /\ pc[p] = "running"
    /\ lockHolder' = [lockHolder EXCEPT ![fd[p]] = NoProc]
    /\ fd' = [fd EXCEPT ![p] = NoInode]
    /\ pc' = [pc EXCEPT ![p] = "rm_read"]
    /\ UNCHANGED <<pidPath, content, created, readData, exitCode, exitWhy>>
    /\ UNCHANGED notPidVars

\* removePID: os.ReadFile(paths.PID()); an error (no file) returns.
removePID_read(p) ==
    /\ pc[p] = "rm_read"
    /\ IF pidPath = NoInode
         THEN /\ pc' = [pc EXCEPT ![p] = "exited"]
              /\ exitCode' = [exitCode EXCEPT ![p] = 0]
              /\ UNCHANGED readData
         ELSE /\ readData' = [readData EXCEPT ![p] = content[pidPath]]
              /\ pc' = [pc EXCEPT ![p] = "rm_remove"]
              /\ UNCHANGED exitCode
    /\ UNCHANGED <<fd, pidPath, content, lockHolder, created, exitWhy>>
    /\ UNCHANGED notPidVars

\* removePID: if the token read matches, os.Remove(paths.PID()); main returns.
removePID_remove(p) ==
    /\ pc[p] = "rm_remove"
    /\ pidPath' = IF tokenMatches(readData[p], pidToken(p)) THEN NoInode ELSE pidPath
    /\ pc' = [pc EXCEPT ![p] = "exited"]
    /\ exitCode' = [exitCode EXCEPT ![p] = 0]
    /\ UNCHANGED <<fd, content, lockHolder, created, readData, exitWhy>>
    /\ UNCHANGED notPidVars

\* The data directory at start: no PID file, or the unlocked file of a dead
\* daemon (inode 1).
InitPid ==
    /\ pc = [p \in Procs |-> "start"]
    /\ fd = [p \in Procs |-> NoInode]
    /\ exitCode = [p \in Procs |-> -1]
    /\ exitWhy = [p \in Procs |-> ""]
    /\ readData = [p \in Procs |-> <<>>]
    /\ lockHolder = [i \in Inodes |-> NoProc]
    /\ \/ /\ pidPath = NoInode
          /\ created = 0
          /\ content = [i \in Inodes |-> <<>>]
       \/ /\ pidPath = 1
          /\ created = 1
          /\ content = [i \in Inodes |-> IF i = 1 THEN <<0, StaleToken>> ELSE <<>>]

\* the PID file as the other specifications hold it: no daemon started yet
InitPidIdle ==
    /\ pc = [p \in Procs |-> "start"]
    /\ fd = [p \in Procs |-> NoInode]
    /\ exitCode = [p \in Procs |-> -1]
    /\ exitWhy = [p \in Procs |-> ""]
    /\ readData = [p \in Procs |-> <<>>]
    /\ lockHolder = [i \in Inodes |-> NoProc]
    /\ pidPath = NoInode
    /\ created = 0
    /\ content = [i \in Inodes |-> <<>>]

NextPid ==
    \E p \in Procs :
        \/ main_mkdir(p)
        \/ checkStalePID_open(p)
        \/ checkStalePID_lock(p)
        \/ checkStalePID_unlock(p)
        \/ checkStalePID_remove(p)
        \/ main_setup(p)
        \/ writePID_open(p)
        \/ writePID_lock(p)
        \/ writePID_truncate(p)
        \/ writePID_write(p)
        \/ main_pricing(p)
        \/ main_connect(p)
        \/ removePID_unlock(p)
        \/ removePID_read(p)
        \/ removePID_remove(p)

(***************************************************************************)
(* Change watcher: src/unnamed/part_006 (internal/session/watcher.go).     *)
(* One watcher built by NewDirWatcher; its goroutine runs watchDir and,    *)
(* after a native error, pollDir (or pollDir from the start when native    *)
(* registration failed).  Close may be called by several goroutines.       *)
(***************************************************************************)
Closers == 1..MaxClosers

\* the fsnotify watcher delivers events and errors until it is closed
FswOpen == fswClosed = 0

\* every notify() queues a signal: a channel that holds them all
notify_queueAll ==
    /\ wEvents' = wEvents + 1
    /\ wDropped' = FALSE

\* notify: select { case w.events <- struct{}{}: default: } on a channel of
\* capacity 1: the signal is queued when the slot is free, dropped otherwise.
notify ==
    /\ wEvents' = IF wEvents = 0 THEN 1 ELSE wEvents
    /\ wDropped' = (wEvents # 0)

\* fsnotify's Close: the first call stops delivery (what was ready is dropped)
\* and closes the Events and Errors channels.
fswClose ==
    /\ fswClosed' = fswClosed + 1
    /\ fsQ' = <<>>
    /\ fsErr' = FALSE

\* A hook script writes or creates a state file.
FileWrite ==
    /\ mtime < MaxWrites
    /\ mtime' = mtime + 1
    /\ IF FswOpen
         THEN /\ Len(fsQ) < MaxFsQ
              /\ fsQ' = Append(fsQ, "state")
         ELSE UNCHANGED fsQ
    /\ UNCHANGED <<wEvents, wDone, wFsw, fswClosed, wPolling, wOnce, fsErr, wg,
                   lastMod, seenMod, cpc, wPanic, wDropped>>
    /\ UNCHANGED notWatcherVars

\* Another file of the data directory changes (a log, the config, a marker).
OtherFileEvent ==
    /\ FswOpen
    /\ Len(fsQ) < MaxFsQ
    /\ fsQ' = Append(fsQ, "other")
    /\ UNCHANGED <<wEvents, wDone, wFsw, fswClosed, wPolling, wOnce, fsErr, wg,
                   mtime, lastMod, seenMod, cpc, wPanic, wDropped>>
    /\ UNCHANGED notWatcherVars

\* The native watcher raises an error on fsw.Errors.
FsError ==
    /\ FswOpen
    /\ ~fsErr
    /\ fsErr' = TRUE
    /\ UNCHANGED <<wEvents, wDone, wFsw, fswClosed, wPolling, wOnce, fsQ, wg,
                   mtime, lastMod, seenMod, cpc, wPanic, wDropped>>
    /\ UNCHANGED notWatcherVars

\* watchDir: case <-w.done: return.
watchDir_done ==
    /\ wg = "select"
    /\ wDone
    /\ wg' = "exit"
    /\ UNCHANGED <<wEvents, wDone, wFsw, fswClosed, wPolling, wOnce, fsQ, fsErr,
                   mtime, lastMod, seenMod, cpc, wPanic, wDropped>>
    /\ UNCHANGED notWatcherVars

\* watchDir: case event, ok := <-w.fsw.Events with ok: a Write or Create of a
\* state file leads to notify(), any other event back to the select.
watchDir_event ==
    /\ wg = "select"
    /\ fsQ # <<>>
    /\ fsQ' = Tail(fsQ)
    /\ wg' = IF Head(fsQ) = "state" THEN "notify" ELSE "select"
    /\ UNCHANGED <<wEvents, wDone, wFsw, fswClosed, wPolling, wOnce, fsErr,
                   mtime, lastMod, seenMod, cpc, wPanic, wDropped>>
    /\ UNCHANGED notWatcherVars

\* watchDir: the Events (or Errors) channel was closed: !ok, return.
watchDir_closed ==
    /\ wg = "select"
    /\ ~FswOpen
    /\ wg' = "exit"
    /\ UNCHANGED <<wEvents, wDone, wFsw, fswClosed, wPolling, wOnce, fsQ, fsErr,
                   mtime, lastMod, seenMod, cpc, wPanic, wDropped>>
    /\ UNCHANGED notWatcherVars

\* watchDir: w.notify() for the event received.
watchDir_notify ==
    /\ wg = "notify"
    /\ notify
    /\ wg' = "select"
    /\ UNCHANGED <<wDone, wFsw, fswClosed, wPolling, wOnce, fsQ, fsErr,
                   mtime, lastMod, seenMod, cpc, wPanic>>
    /\ UNCHANGED notWatcherVars

\* watchDir: case err, ok := <-w.fsw.Errors with ok: fall back to polling.
watchDir_error ==
    /\ wg = "select"
    /\ fsErr
    /\ fsErr' = FALSE
    /\ wg' = "fb_close"
    /\ UNCHANGED <<wEvents, wDone, wFsw, fswClosed, wPolling, wOnce, fsQ,
                   mtime, lastMod, seenMod, cpc, wPanic, wDropped>>
    /\ UNCHANGED notWatcherVars

\* watchDir, fallback: w.fsw.Close().
watchDir_fallbackClose ==
    /\ wg = "fb_close"
    /\ fswClose
    /\ wg' = "fb_nil"
    /\ UNCHANGED <<wEvents, wDone, wFsw, wPolling, wOnce,
                   mtime, lastMod, seenMod, cpc, wPanic, wDropped>>
    /\ UNCHANGED notWatcherVars

\* watchDir, fallback: w.fsw = nil.
watchDir_fallbackNil ==
    /\ wg = "fb_nil"
    /\ wFsw' = "nil"
    /\ wg' = "fb_poll"
    /\ UNCHANGED <<wEvents, wDone, fswClosed, wPolling, wOnce, fsQ, fsErr,
                   mtime, lastMod, seenMod, cpc, wPanic, wDropped>>
    /\ UNCHANGED notWatcherVars

\* watchDir, fallback: w.polling.Store(true); go w.pollDir(); return.
watchDir_fallbackPoll ==
    /\ wg = "fb_poll"
    /\ wPolling' = TRUE
    /\ wg' = "pollInit"
    /\ UNCHANGED <<wEvents, wDone, wFsw, fswClosed, wOnce, fsQ, fsErr,
                   mtime, lastMod, seenMod, cpc, wPanic, wDropped>>
    /\ UNCHANGED notWatcherVars

\* pollDir: lastMod := w.latestStateMod(); the ticker is created.
pollDir_init ==
    /\ wg = "pollInit"
    /\ lastMod' = mtime
    /\ wg' = "pollSelect"
    /\ UNCHANGED <<wEvents, wDone, wFsw, fswClosed, wPolling, wOnce, fsQ, fsErr,
                   mtime, seenMod, cpc, wPanic, wDropped>>
    /\ UNCHANGED notWatcherVars

\* pollDir: case <-w.done: return.
pollDir_done ==
    /\ wg = "pollSelect"
    /\ wDone
    /\ wg' = "exit"
    /\ UNCHANGED <<wEvents, wDone, wFsw, fswClosed, wPolling, wOnce, fsQ, fsErr,
                   mtime, lastMod, seenMod, cpc, wPanic, wDropped>>
    /\ UNCHANGED notWatcherVars

\* pollDir: case <-ticker.C: mod := w.latestStateMod().
pollDir_tick ==
    /\ wg = "pollSelect"
    /\ seenMod' = mtime
    /\ wg' = "pollCmp"
    /\ UNCHANGED <<wEvents, wDone, wFsw, fswClosed, wPolling, wOnce, fsQ, fsErr,
                   mtime, lastMod, cpc, wPanic, wDropped>>
    /\ UNCHANGED notWatcherVars

\* the comparison with lastMod never brought up to date
pollDir_compare_stale ==
    /\ wg = "pollCmp"
    /\ wg' = IF seenMod > lastMod THEN "pollNotify" ELSE "pollSelect"
    /\ UNCHANGED <<wEvents, wDone, wFsw, fswClosed, wPolling, wOnce, fsQ, fsErr,
                   mtime, lastMod, seenMod, cpc, wPanic, wDropped>>
    /\ UNCHANGED notWatcherVars

\* pollDir: if mod.After(lastMod) { lastMod = mod; w.notify() }.
pollDir_compare ==
    /\ wg = "pollCmp"
    /\ IF seenMod > lastMod
         THEN /\ lastMod' = seenMod
              /\ wg' = "pollNotify"
         ELSE /\ wg' = "pollSelect"
              /\ UNCHANGED lastMod
    /\ UNCHANGED <<wEvents, wDone, wFsw, fswClosed, wPolling, wOnce, fsQ, fsErr,
                   mtime, seenMod, cpc, wPanic, wDropped>>
    /\ UNCHANGED notWatcherVars

\* pollDir: w.notify() for the modification seen.
pollDir_notify ==
    /\ wg = "pollNotify"
    /\ notify
    /\ wg' = "pollSelect"
    /\ UNCHANGED <<wDone, wFsw, fswClosed, wPolling, wOnce, fsQ, fsErr,
                   mtime, lastMod, seenMod, cpc, wPanic>>
    /\ UNCHANGED notWatcherVars

\* Close: w.once.Do(...).  The first caller runs the function, a caller that
\* arrives while it runs waits for it, a later caller returns at once.
Close_enter_noOnce(c) ==
    /\ cpc[c] = "idle"
    /\ wOnce' = "running"
    /\ cpc' = [cpc EXCEPT ![c] = "cl_done"]
    /\ UNCHANGED <<wEvents, wDone, wFsw, fswClosed, wPolling, fsQ, fsErr, wg,
                   mtime, lastMod, seenMod, wPanic, wDropped>>
    /\ UNCHANGED notWatcherVars

Close_enter(c) ==
    /\ cpc[c] = "idle"
    /\ wOnce # "running"
    /\ IF wOnce = "fresh"
         THEN /\ wOnce' = "running"
              /\ cpc' = [cpc EXCEPT ![c] = "cl_done"]
         ELSE /\ cpc' = [cpc EXCEPT ![c] = "returned"]
              /\ UNCHANGED wOnce
    /\ UNCHANGED <<wEvents, wDone, wFsw, fswClosed, wPolling, fsQ, fsErr, wg,
                   mtime, lastMod, seenMod, wPanic, wDropped>>
    /\ UNCHANGED notWatcherVars

\* Close: close(w.done); closing a closed channel panics.
Close_done(c) ==
    /\ cpc[c] = "cl_done"
    /\ IF wDone
         THEN /\ wPanic' = TRUE
              /\ cpc' = [cpc EXCEPT ![c] = "panicked_done"]
              /\ UNCHANGED wDone
         ELSE /\ wDone' = TRUE
              /\ cpc' = [cpc EXCEPT ![c] = "cl_check"]
              /\ UNCHANGED wPanic
    /\ UNCHANGED <<wEvents, wFsw, fswClosed, wPolling, wOnce, fsQ, fsErr, wg,
                   mtime, lastMod, seenMod, wDropped>>
    /\ UNCHANGED notWatcherVars

\* Close: if w.fsw != nil.
Close_check(c) ==
    /\ cpc[c] = "cl_check"
    /\ IF wFsw # "nil"
         THEN /\ cpc' = [cpc EXCEPT ![c] = "cl_fsw"]
              /\ UNCHANGED wOnce
         ELSE /\ cpc' = [cpc EXCEPT ![c] = "returned"]
              /\ wOnce' = "done"
    /\ UNCHANGED <<wEvents, wDone, wFsw, fswClosed, wPolling, fsQ, fsErr, wg,
                   mtime, lastMod, seenMod, wPanic, wDropped>>
    /\ UNCHANGED notWatcherVars

\* Close: w.fsw.Close().  The field w.fsw is read without synchronisation
\* with the fallback path that sets it to nil: when that has happened in
\* between, the call is made on nil (a nil pointer dereference) if the field
\* is read again, or on the watcher read at the test if that value was kept.
Close_fsw(c) ==
    /\ cpc[c] = "cl_fsw"
    /\ \/ /\ wFsw = "nil"
          /\ wPanic' = TRUE
          /\ cpc' = [cpc EXCEPT ![c] = "panicked"]
          /\ UNCHANGED <<fswClosed, fsQ, fsErr, wOnce>>
       \/ /\ fswClose
          /\ wOnce' = "done"
          /\ cpc' = [cpc EXCEPT ![c] = "returned"]
          /\ UNCHANGED wPanic
    /\ UNCHANGED <<wEvents, wDone, wFsw, wPolling, wg, mtime, lastMod, seenMod,
                   wDropped>>
    /\ UNCHANGED notWatcherVars

\* The event loop receives from Events().
Events_receive ==
    /\ wEvents > 0
    /\ wEvents' = wEvents - 1
    /\ wDropped' = FALSE
    /\ UNCHANGED <<wDone, wFsw, fswClosed, wPolling, wOnce, fsQ, fsErr, wg,
                   mtime, lastMod, seenMod, cpc, wPanic>>
    /\ UNCHANGED notWatcherVars

\* NewDirWatcher: native registration succeeded (go w.watchDir()), or it
\* failed (fsw.Close(), w.fsw = nil, polling, go w.pollDir()).
InitWatcherCommon ==
    /\ wEvents = 0
    /\ wDone = FALSE
    /\ wOnce = "fresh"
    /\ fsQ = <<>>
    /\ fsErr = FALSE
    /\ mtime = 0
    /\ lastMod = 0
    /\ seenMod = 0
    /\ cpc = [c \in Closers |-> "idle"]
    /\ wPanic = FALSE
    /\ wDropped = FALSE

InitWatcherNative ==
    /\ InitWatcherCommon
    /\ wFsw = "set"
    /\ fswClosed = 0
    /\ wPolling = FALSE
    /\ wg = "select"

InitWatcherPolling ==
    /\ InitWatcherCommon
    /\ wFsw = "nil"
    /\ fswClosed = 1
    /\ wPolling = TRUE
    /\ wg = "pollInit"

InitWatcher == InitWatcherNative \/ InitWatcherPolling

\* the watcher as the other specifications hold it: built, never used
InitWatcherIdle == InitWatcherNative

NextWatcher ==
    \/ FileWrite
    \/ OtherFileEvent
    \/ FsError
    \/ watchDir_done
    \/ watchDir_event
    \/ watchDir_closed
    \/ watchDir_notify
    \/ watchDir_error
    \/ watchDir_fallbackClose
    \/ watchDir_fallbackNil
    \/ watchDir_fallbackPoll
    \/ pollDir_init
    \/ pollDir_done
    \/ pollDir_tick
    \/ pollDir_compare
    \/ pollDir_notify
    \/ \E c \in Closers : Close_enter(c)
    \/ \E c \in Closers : Close_done(c)
    \/ \E c \in Closers : Close_check(c)
    \/ \E c \in Closers : Close_fsw(c)
    \/ Events_receive

(***************************************************************************)
(* IPC client: src/internal/discord/client.go.                             *)
(* A connection is [nil, app, alive]: app is the application id sent in    *)
(* the handshake, alive is FALSE once the peer end is gone (writes fail).  *)
(* The nonce is left out of this state machine: no branch reads it.        *)
(***************************************************************************)
NoConn == [nil |-> TRUE, app |-> "", alive |-> FALSE]

\* NewClient(appID)
NewClient(appID) == [appID |-> appID, conn |-> NoConn]

\* Client.Connected: c.conn != nil
Connected(c) == ~c.conn.nil

\* Client.sendCommand: ErrNotConnected without a connection; otherwise the
\* frame is written; a failed write returns the error and leaves c.conn as
\* it is.  Result: the client after the call, the error, whether the frame
\* reached the peer.
sendCommand(c) ==
    IF c.conn = NoConn
      THEN [client |-> c, err |-> "not connected", wrote |-> FALSE]
      ELSE IF c.conn.alive
             THEN [client |-> c, err |-> "", wrote |-> TRUE]
             ELSE [client |-> c, err |-> "write", wrote |-> FALSE]

\* Client.SetActivity and Client.ClearActivity: sendCommand under c.mu.
SetActivity(c) == sendCommand(c)
ClearActivity(c) == sendCommand(c)

\* Client.Connect: an old connection is closed; connectToDiscord and the
\* handshake succeed iff the service is reachable (up); on failure c.conn
\* is nil.
Connect(c, up) ==
    IF up
      THEN [client |-> [c EXCEPT !.conn = [nil |-> FALSE, app |-> c.appID, alive |-> TRUE]],
            ok |-> TRUE]
      ELSE [client |-> [c EXCEPT !.conn = NoConn], ok |-> FALSE]

\* Client.Close: nothing without a connection; else a best-effort clear,
\* conn.Close(), c.conn = nil.  Result: the client and whether a clear frame
\* reached the peer.
Close(c) ==
    IF c.conn = NoConn
      THEN [client |-> c, tried |-> FALSE, wrote |-> FALSE]
      ELSE [client |-> [c EXCEPT !.conn = NoConn], tried |-> TRUE,
            wrote |-> sendCommand(c).wrote]

(***************************************************************************)
(* Configuration and session state as the event loop reads them.           *)
(***************************************************************************)
\* config.DefaultDiscordAppID, the value of discord.app_id
GlobalAppID == "app"

\* the client ids of the state files; claude-code is the one known client
Clients == {"claude-code", "cursor", "windsurf"}

\* [clients.X] app_id of the configuration: cursor has its own application
ClientAppID(client) == IF client = "cursor" THEN "appCursor" ELSE ""

\* config.ClientIcon: knownClients[id].Icon, "app_icon" for an unknown id
ClientIcon(id) == IF id = "claude-code" THEN "app_icon_claude_code" ELSE "app_icon"

\* privacy.ignore, and the working directories sessions run in
IgnoredPatterns == {"/secret"}
Cwds == {"/work", "/secret"}

\* the rendered details/state lines of a session (project, branch, cost ...)
Texts == {"t1", "t2"}

IdleModes == {"clear", "idle_text", "last_activity"}

NoState == [nil |-> TRUE, client |-> "", stopped |-> FALSE, cwd |-> "", text |-> "", age |-> 0]

NoActivity == [nil |-> TRUE, text |-> "", image |-> ""]

\* display.assets.large_image of the default configuration
DefaultLargeImage == "app_icon"

\* resolveDiscordAppID
resolveDiscordAppID(client) ==
    IF ClientAppID(client) # "" THEN ClientAppID(client) ELSE GlobalAppID

\* matchesIgnorePattern
matchesIgnorePattern(patterns, cwd) == cwd \in patterns

\* a session counts as idle from the threshold on
isIdle_fromThreshold(idleMinutes, age) == idleMinutes > 0 /\ age >= idleMinutes

\* isIdle: cfg.IdleMinutes > 0 && now - lastActivity > IdleMinutes*60
isIdle(idleMinutes, age) == idleMinutes > 0 /\ age > idleMinutes

\* buildIdleActivity
buildIdleActivity(idleMode, largeImage) ==
    IF idleMode = "idle_text"
      THEN [nil |-> FALSE, text |-> "idle", image |-> largeImage]
      ELSE NoActivity

\* BuildActivityWithData
BuildActivityWithData(s, c, largeImage) ==
    IF s.stopped THEN NoActivity
    ELSE IF matchesIgnorePattern(IgnoredPatterns, s.cwd) THEN NoActivity
    ELSE IF isIdle(c.idleMinutes, s.age) THEN buildIdleActivity(c.idleMode, largeImage)
    ELSE [nil |-> FALSE, text |-> s.text, image |-> largeImage]

\* Activity.Hash: "" for nil, else the SHA-256 of the JSON encoding, taken
\* as injective on the fields
Hash(a) == IF a.nil THEN "" ELSE "sha(" \o a.text \o "," \o a.image \o ")"

(***************************************************************************)
(* Daemon event loop: src/unnamed/part_012 (cmd/agentcord/main.go).        *)
(* Time is counted in poll ticks: a state's age is the time since its      *)
(* lastActivity, ls.lastActivityTime is held as the time since that        *)
(* moment (ZeroTime for the zero time.Time).  The loop is one goroutine:   *)
(* every handler is one step.                                              *)
(***************************************************************************)
ZeroTime == -1

older(t) == IF t = ZeroTime THEN ZeroTime ELSE IF t < MaxAge THEN t + 1 ELSE MaxAge

\* loopState at the start of run(): activeAppID is cfg.Discord.AppID
InitLoopState ==
    [lastActivityTime |-> ZeroTime, lastActivity |-> NoActivity, lastHash |-> "",
     idleCleared |-> FALSE, activeClient |-> "", activeAppID |-> GlobalAppID,
     lastCleanup |-> ZeroTime]

\* a frame as the observer records it
Frame(by, c, forClient, act, res) ==
    [by |-> by, app |-> c.conn.app, forClient |-> forClient, nil |-> act.nil,
     err |-> res.err]

\* connectWithRetry: up to 10 calls of Connect with a sleep between failures;
\* the service is reachable at every attempt or at none.
connectWithRetry(c, up) == Connect(c, up)

\* cleanupInterval (10 minutes) in poll ticks
CleanupTicks == 2

\* cleanupOrphanedSessions: nothing inside the interval; else lastCleanup is
\* now and the old session markers are removed (no handler reads them).
cleanupOrphanedSessions(l) ==
    IF l.lastCleanup # ZeroTime /\ l.lastCleanup < CleanupTicks
      THEN l
      ELSE [l EXCEPT !.lastCleanup = 0]

\* checkDaemonIdle
checkDaemonIdle(l, daemonIdleMinutes) ==
    IF daemonIdleMinutes <= 0 \/ l.lastActivityTime = ZeroTime
      THEN FALSE
      ELSE l.lastActivityTime > daemonIdleMinutes

\* ls.lastHash is left as it was after a successful reconnect
handleReconnect_keepHash(c, l, up) ==
    IF Connected(c)
      THEN [client |-> c, ls |-> l, tried |-> FALSE, err |-> FALSE]
      ELSE LET r == connectWithRetry(c, up)
           IN  [client |-> r.client, ls |-> l, tried |-> TRUE, err |-> ~r.ok]

\* handleReconnect: nothing while client.Connected(); else connectWithRetry,
\* an error when it fails, ls.lastHash = "" when it succeeds.
handleReconnect(c, l, up) ==
    IF Connected(c)
      THEN [client |-> c, ls |-> l, tried |-> FALSE, err |-> FALSE]
      ELSE LET r == connectWithRetry(c, up)
           IN  IF r.ok
                 THEN [client |-> r.client, ls |-> [l EXCEPT !.lastHash = ""],
                       tried |-> TRUE, err |-> FALSE]
                 ELSE [client |-> r.client, ls |-> l, tried |-> TRUE, err |-> TRUE]

\* the cached activity is never used: presence is cleared in every idle mode
handleIdleState_alwaysClear(c, idleMode, l, activity, forClient) ==
    IF ~activity.nil
      THEN [activity |-> activity, ls |-> l, frames |-> <<>>]
    ELSE IF ~l.idleCleared
      THEN [activity |-> NoActivity,
            ls |-> [l EXCEPT !.idleCleared = TRUE, !.lastHash = ""],
            frames |-> <<Frame("ClearActivity", c, forClient, NoActivity, ClearActivity(c))>>]
    ELSE [activity |-> NoActivity, ls |-> l, frames |-> <<>>]

\* handleIdleState
handleIdleState(c, idleMode, l, activity, forClient) ==
    IF ~activity.nil
      THEN [activity |-> activity, ls |-> l, frames |-> <<>>]
    ELSE IF idleMode = "last_activity" /\ ~l.lastActivity.nil
      THEN [activity |-> l.lastActivity, ls |-> l, frames |-> <<>>]
    ELSE IF ~l.idleCleared
      THEN [activity |-> NoActivity,
            ls |-> [l EXCEPT !.idleCleared = TRUE, !.lastHash = ""],
            frames |-> <<Frame("ClearActivity", c, forClient, NoActivity, ClearActivity(c))>>]
    ELSE [activity |-> NoActivity, ls |-> l, frames |-> <<>>]

\* processState, the test at its top: the active client changed and the
\* new one needs another application id.
needsAppSwitch(l, s) ==
    /\ l.activeClient # s.client
    /\ l.activeAppID # ""
    /\ resolveDiscordAppID(s.client) # l.activeAppID

\* the dedup test left out: every built payload is sent
sameAsLastSent_noDedup(activity, l) == FALSE

\* processState, the dedup test: hash == ls.lastHash
sameAsLastSent(activity, l) == Hash(activity) = l.lastHash

\* ls.idleCleared is left as it was when a payload is published
publish_keepFlag(c, l, activity, forClient) ==
    LET l1 == [l EXCEPT !.lastActivityTime = 0, !.lastActivity = activity]
    IN  IF sameAsLastSent(activity, l1)
          THEN [client |-> c, ls |-> l1, frames |-> <<>>, end |-> "same"]
          ELSE LET res == SetActivity(c)
               IN  [client |-> res.client,
                    ls |-> [l1 EXCEPT !.lastHash = Hash(activity)],
                    frames |-> <<Frame("SetActivity", c, forClient, activity, res)>>,
                    end |-> "sent"]

\* processState from the publish step on: the activity is not nil.
publish(c, l, activity, forClient) ==
    LET l1 == [l EXCEPT !.idleCleared = FALSE, !.lastActivityTime = 0,
                        !.lastActivity = activity]
    IN  IF sameAsLastSent(activity, l1)
          THEN [client |-> c, ls |-> l1, frames |-> <<>>, end |-> "same"]
          ELSE LET res == SetActivity(c)
               IN  [client |-> res.client,
                    ls |-> [l1 EXCEPT !.lastHash = Hash(activity)],
                    frames |-> <<Frame("SetActivity", c, forClient, activity, res)>>,
                    end |-> "sent"]

\* processState after the application-id check: per-client settings, build,
\* idle handling, publish.
buildAndPublish(c, a, l, s, conf) ==
    LET a1 == IF l.activeClient # s.client
                THEN [a EXCEPT !.LargeImage = ClientIcon(s.client)] ELSE a
        l1 == [l EXCEPT !.activeClient = s.client,
                        !.activeAppID = resolveDiscordAppID(s.client)]
        built == BuildActivityWithData(s, conf, a1.LargeImage)
        idle == handleIdleState(c, conf.idleMode, l1, built, s.client)
    IN  IF idle.activity.nil
          THEN [client |-> c, actCfg |-> a1, ls |-> idle.ls, frames |-> idle.frames,
                end |-> "nil", built |-> built, activity |-> idle.activity]
          ELSE LET p == publish(c, idle.ls, idle.activity, s.client)
               IN  [client |-> p.client, actCfg |-> a1, ls |-> p.ls,
                    frames |-> idle.frames \o p.frames,
                    end |-> p.end, built |-> built, activity |-> idle.activity]

\* processState.  Result: the client, actCfg and loopState after the call,
\* the frames written, whether a connect succeeded, and where it returned.
processState(c, a, l, s, conf, up) ==
    IF s.nil
      THEN [client |-> c, actCfg |-> a, ls |-> l, frames |-> <<>>, end |-> "nostate",
            built |-> NoActivity, activity |-> NoActivity, connected |-> FALSE]
    ELSE IF needsAppSwitch(l, s)
      THEN LET cl == Close(c)
               fr == IF cl.tried
                       THEN <<Frame("Close", c, s.client, NoActivity, sendCommand(c))>>
                       ELSE <<>>
               r  == connectWithRetry(NewClient(resolveDiscordAppID(s.client)), up)
           IN  IF ~r.ok
                 THEN [client |-> r.client, actCfg |-> a, ls |-> l, frames |-> fr,
                       end |-> "connfail", built |-> NoActivity,
                       activity |-> NoActivity, connected |-> FALSE]
                 ELSE LET b == buildAndPublish(r.client, a, [l EXCEPT !.lastHash = ""],
                                               s, conf)
                      IN  [client |-> b.client, actCfg |-> b.actCfg, ls |-> b.ls,
                           frames |-> fr \o b.frames, end |-> b.end, built |-> b.built,
                           activity |-> b.activity, connected |-> TRUE]
    ELSE LET b == buildAndPublish(c, a, l, s, conf)
         IN  [client |-> b.client, actCfg |-> b.actCfg, ls |-> b.ls,
              frames |-> b.frames, end |-> b.end, built |-> b.built,
              activity |-> b.activity, connected |-> FALSE]

\* the daemon's settings: presence_idle_minutes, idle_mode, daemon_idle_minutes
Cfgs == [idleMinutes : {1}, idleMode : IdleModes, daemonIdle : {0, 1}]

\* the state files a hook can leave behind (lastActivity = now): a running
\* session of any client, one with another text, a stopped one, and one in
\* an ignored directory
HookState(client, stopped, cwd, text) ==
    [nil |-> FALSE, client |-> client, stopped |-> stopped, cwd |-> cwd,
     text |-> text, age |-> 0]

HookStates ==
    {HookState(c, FALSE, "/work", "t1") : c \in Clients}
    \cup {HookState("claude-code", FALSE, "/work", t) : t \in Texts}
    \cup {HookState("claude-code", TRUE, "/work", "t1")}
    \cup {HookState("claude-code", FALSE, d, "t1") : d \in Cwds \cap IgnoredPatterns}

\* what the observer notes of one step of the loop
NoObs ==
    [step |-> "", frames |-> <<>>, end |-> "", hidden |-> "", activity |-> NoActivity,
     connAfterSend |-> FALSE, dropped |-> FALSE, reconnectTried |-> FALSE,
     idleExit |-> FALSE, runPayload |-> NoActivity, runSends |-> 0, connSends |-> 0,
     reconnected |-> FALSE, suppressed |-> FALSE, afterReconnect |-> FALSE]

sends(frames) == Cardinality({i \in 1..Len(frames) : frames[i].by = "SetActivity"})

atMost2(n) == IF n > 2 THEN 2 ELSE n

\* why BuildActivityWithData hides the state, "" when it does not
hiddenBy(s) ==
    IF s.nil THEN ""
    ELSE IF s.stopped THEN "stopped"
    ELSE IF matchesIgnorePattern(IgnoredPatterns, s.cwd) THEN "ignored"
    ELSE ""

\* the observer's record after one processState call r on state s
observe(step, s, r) ==
    LET reached == r.end \notin {"nostate", "connfail"}
        same    == reached /\ ~r.built.nil /\ r.built = obs.runPayload
        fresh   == obs.reconnected \/ r.connected
        n       == sends(r.frames)
    IN  [step |-> step, frames |-> r.frames, end |-> r.end,
         hidden |-> IF reached THEN hiddenBy(s) ELSE "",
         activity |-> r.activity,
         connAfterSend |-> Connected(r.client),
         dropped |-> FALSE, reconnectTried |-> FALSE, idleExit |-> FALSE,
         runPayload |-> IF reached THEN r.built ELSE obs.runPayload,
         runSends |-> IF ~reached THEN obs.runSends
                      ELSE IF r.built.nil THEN 0
                      ELSE atMost2((IF same THEN obs.runSends ELSE 0) + n),
         connSends |-> IF ~reached THEN obs.connSends
                       ELSE IF r.built.nil THEN 0
                       ELSE atMost2((IF same /\ ~fresh THEN obs.connSends ELSE 0) + n),
         reconnected |-> IF reached THEN FALSE ELSE fresh,
         suppressed |-> same /\ ~fresh /\ n = 0,
         afterReconnect |-> obs.step = "tick" /\ obs.reconnectTried]

aged(s) == IF s.nil THEN s ELSE [s EXCEPT !.age = older(s.age)]

\* a hook of some session rewrites the newest state file
HookWrite ==
    /\ lpc \in {"init", "select"}
    /\ \E s \in HookStates : cur' = s
    /\ UNCHANGED <<cfg, dclient, peerUp, ls, actCfg, lpc, obs>>
    /\ UNCHANGED notLoopVars

\* the presence service goes away: an established connection is dead
PeerDrop ==
    /\ lpc \in {"init", "select"}
    /\ peerUp
    /\ peerUp' = FALSE
    /\ dclient' = IF Connected(dclient)
                    THEN [dclient EXCEPT !.conn.alive = FALSE] ELSE dclient
    /\ UNCHANGED <<cfg, cur, ls, actCfg, lpc, obs>>
    /\ UNCHANGED notLoopVars

\* the presence service is started again
PeerUp ==
    /\ lpc \in {"init", "select"}
    /\ ~peerUp
    /\ peerUp' = TRUE
    /\ UNCHANGED <<cfg, cur, dclient, ls, actCfg, lpc, obs>>
    /\ UNCHANGED notLoopVars

\* run(): the initial processState before the select loop
run_init ==
    /\ lpc = "init"
    /\ LET r == processState(dclient, actCfg, ls, cur, cfg, peerUp)
       IN  /\ dclient' = r.client
           /\ actCfg' = r.actCfg
           /\ ls' = r.ls
           /\ obs' = observe("init", cur, r)
    /\ lpc' = "select"
    /\ UNCHANGED <<cfg, cur, peerUp>>
    /\ UNCHANGED notLoopVars

\* run(): case <-watcher.Events()
run_watchEvent ==
    /\ lpc = "select"
    /\ LET r == processState(dclient, actCfg, ls, cur, cfg, peerUp)
       IN  /\ dclient' = r.client
           /\ actCfg' = r.actCfg
           /\ ls' = r.ls
           /\ obs' = observe("event", cur, r)
    /\ UNCHANGED <<cfg, cur, peerUp, lpc>>
    /\ UNCHANGED notLoopVars

\* run(): case <-ticker.C, one poll interval after the previous tick:
\* processState, cleanupOrphanedSessions, checkDaemonIdle (return),
\* handleReconnect (return on error)
run_tick ==
    /\ lpc = "select"
    /\ LET s  == aged(cur)
           l0 == [ls EXCEPT !.lastActivityTime = older(ls.lastActivityTime),
                            !.lastCleanup = older(ls.lastCleanup)]
           r  == processState(dclient, actCfg, l0, s, cfg, peerUp)
           lc == cleanupOrphanedSessions(r.ls)
           o  == observe("tick", s, r)
           dead == r.client.conn.nil \/ ~r.client.conn.alive
       IN  /\ cur' = s
           /\ actCfg' = r.actCfg
           /\ IF checkDaemonIdle(lc, cfg.daemonIdle)
                THEN /\ dclient' = r.client
                     /\ ls' = lc
                     /\ obs' = [o EXCEPT !.dropped = dead, !.idleExit = TRUE]
                     /\ lpc' = "returned"
                ELSE LET h == handleReconnect(r.client, lc, peerUp)
                     IN  /\ dclient' = h.client
                         /\ ls' = h.ls
                         /\ obs' = [o EXCEPT !.dropped = dead,
                                             !.reconnectTried = h.tried,
                                             !.reconnected = o.reconnected
                                                              \/ (h.tried /\ ~h.err)]
                         /\ lpc' = IF h.err THEN "returned" ELSE "select"
    /\ UNCHANGED <<cfg, peerUp>>
    /\ UNCHANGED notLoopVars

\* run(): case <-sigCh
run_signal ==
    /\ lpc = "select"
    /\ lpc' = "returned"
    /\ obs' = [NoObs EXCEPT !.step = "signal"]
    /\ UNCHANGED <<cfg, cur, dclient, peerUp, ls, actCfg>>
    /\ UNCHANGED notLoopVars

\* main after run() returned: the deferred client.Close()
main_deferredClose ==
    /\ lpc = "returned"
    /\ dclient' = Close(dclient).client
    /\ obs' = [NoObs EXCEPT !.step = "close",
                            !.frames = IF Close(dclient).tried
                                         THEN <<Frame("Close", dclient, "", NoActivity,
                                                      sendCommand(dclient))>>
                                         ELSE <<>>]
    /\ lpc' = "exited"
    /\ UNCHANGED <<cfg, cur, peerUp, ls, actCfg>>
    /\ UNCHANGED notLoopVars

\* main reached run(): connectWithRetry succeeded under discord.app_id
InitLoop ==
    /\ cfg \in Cfgs
    /\ cur = NoState
    /\ dclient = Connect(NewClient(GlobalAppID), TRUE).client
    /\ peerUp = TRUE
    /\ ls = InitLoopState
    /\ actCfg = [LargeImage |-> DefaultLargeImage]
    /\ lpc = "init"
    /\ obs = NoObs

\* the event loop left out: it has returned
InitLoopIdle ==
    /\ cfg = [idleMinutes |-> 1, idleMode |-> "clear", daemonIdle |-> 1]
    /\ cur = NoState
    /\ dclient = NewClient(GlobalAppID)
    /\ peerUp = TRUE
    /\ ls = InitLoopState
    /\ actCfg = [LargeImage |-> DefaultLargeImage]
    /\ lpc = "exited"
    /\ obs = NoObs

NextLoop ==
    \/ HookWrite
    \/ PeerDrop
    \/ PeerUp
    \/ run_init
    \/ run_watchEvent
    \/ run_tick
    \/ run_signal
    \/ main_deferredClose

(***************************************************************************)
(* Session state store: src/unnamed/part_007 (internal/session/state.go)   *)
(* and migrate.Run (src/internal/logger/logger.go).  A file's bytes are    *)
(* held as what they parse to: ok (valid JSON), the $version field, the    *)
(* session fields (body) and the migrations applied to them (trail).       *)
(***************************************************************************)
CurrentVersion == 1

NoFile == [nil |-> TRUE, ok |-> FALSE, version |-> 0, body |-> "", trail |-> <<>>]

Bytes(ok, version, body, trail) ==
    [nil |-> FALSE, ok |-> ok, version |-> version, body |-> body, trail |-> trail]

NoStateRead == [nil |-> TRUE, version |-> 0, body |-> "", trail |-> <<>>]

\* a zero State that was given no version
FreshState_unversioned == [nil |-> FALSE, version |-> 0, body |-> "", trail |-> <<>>]

\* State{Version: CurrentVersion}
FreshState == [nil |-> FALSE, version |-> CurrentVersion, body |-> "", trail |-> <<>>]

\* json.Unmarshal(data, &s)
Unmarshal(data) ==
    [nil |-> FALSE, version |-> data.version, body |-> data.body, trail |-> data.trail]

\* json.Marshal(s), as saveState writes it
Marshal(st) == Bytes(TRUE, st.version, st.body, st.trail)

\* the versions migrations are registered for, each failing or not
MigVersions == (CurrentVersion + 1)..MaxVersion

RECURSIVE InsertByVersion(_, _)
InsertByVersion(m, sorted) ==
    IF sorted = <<>> THEN <<m>>
    ELSE IF m.version < Head(sorted).version THEN <<m>> \o sorted
    ELSE <<Head(sorted)>> \o InsertByVersion(m, Tail(sorted))

\* sort.Slice(sorted, func(i, j) { sorted[i].Version < sorted[j].Version })
RECURSIVE SortByVersion(_)
SortByVersion(migrations) ==
    IF migrations = <<>> THEN <<>>
    ELSE InsertByVersion(Head(migrations), SortByVersion(Tail(migrations)))

\* the loop of migrate.Run over the migrations in the order given
RECURSIVE RunLoop(_, _, _, _)
RunLoop(data, version, ms, calls) ==
    IF ms = <<>> THEN [data |-> data, version |-> version, err |-> FALSE, calls |-> calls]
    ELSE IF version < Head(ms).version
      THEN IF Head(ms).fails
             THEN [data |-> NoFile, version |-> version, err |-> TRUE,
                   calls |-> Append(calls, Head(ms).version)]
             ELSE RunLoop([data EXCEPT !.trail = Append(data.trail, Head(ms).version)],
                          Head(ms).version, Tail(ms),
                          Append(calls, Head(ms).version))
      ELSE RunLoop(data, version, Tail(ms), calls)

\* the migrations taken in registration order
Run_unsorted(data, fromVersion, migrations) == RunLoop(data, fromVersion, migrations, <<>>)

\* migrate.Run
Run(data, fromVersion, migrations) ==
    RunLoop(data, fromVersion, SortByVersion(migrations), <<>>)

\* migrate.NeedsMigration
NeedsMigration(fileVersion, currentVersion, force, migrations) ==
    \/ fileVersion # currentVersion
    \/ force /\ Len(migrations) > 0
    \/ \E i \in 1..Len(migrations) : fileVersion < migrations[i].version

\* applyMigrations: the state and the error it leaves
applyMigrations(st, data, migrations) ==
    IF Len(migrations) = 0
       \/ ~NeedsMigration(st.version, CurrentVersion, FALSE, migrations)
      THEN [s |-> st, err |-> FALSE, calls |-> <<>>]
      ELSE LET r == Run(data, st.version, migrations)
           IN  IF r.err
                 THEN [s |-> st, err |-> TRUE, calls |-> r.calls]
                 ELSE [s |-> [Unmarshal(r.data) EXCEPT !.version = r.version],
                       err |-> FALSE, calls |-> r.calls]

\* what the hooks and a user's editor leave at the state path
Bodies == {"a", "b"}

HookBytes ==
    {Bytes(TRUE, v, b, <<>>) : v \in 0..MaxVersion, b \in Bodies}
        \cup {Bytes(FALSE, 0, b, <<>>) : b \in Bodies}

\* the values StateMigrations can hold: any registration order, one entry a version
MigrationLists ==
    LET M == [version : MigVersions, fails : BOOLEAN]
    IN  {<<>>} \cup {<<m>> : m \in M}
            \cup {ms \in {<<m, n>> : m \in M, n \in M} : ms[1].version # ms[2].version}

NoRes ==
    [op |-> "none", done |-> TRUE, case |-> "none", state |-> NoStateRead, err |-> FALSE,
     data |-> NoFile, from |-> 0, calls |-> <<>>, bakN |-> 0,
     backupErr |-> FALSE, saveErr |-> FALSE, wrote |-> NoFile, replaced |-> NoFile]

\* a hook script, or anything else, rewrites the state file between two reads
\* or while ReadState runs
StoreWrite ==
    /\ stWrites < MaxStoreWrites
    /\ stWrites' = stWrites + 1
    /\ \E b \in HookBytes : stFile' = b
    /\ UNCHANGED <<stCorrupted, stBak, stMig, stPc, stData, stS, stReads, stRes>>
    /\ UNCHANGED notStoreVars

\* ReadState up to its first write: os.ReadFile, json.Unmarshal, the version
\* default, applyMigrations and the test for a future version
ReadState_read ==
    /\ stPc = "idle"
    /\ stReads < MaxStoreReads
    /\ stReads' = stReads + 1
    /\ LET data == stFile
           parsed == IF Unmarshal(data).version = 0
                       THEN [Unmarshal(data) EXCEPT !.version = 1]
                       ELSE Unmarshal(data)
           am == applyMigrations(parsed, data, stMig)
           res == [NoRes EXCEPT !.op = "read", !.data = data]
       IN  IF data.nil
             THEN /\ stRes' = [res EXCEPT !.case = "missing", !.err = TRUE]
                  /\ UNCHANGED <<stPc, stData, stS>>
           ELSE IF ~data.ok
             THEN /\ stPc' = "recoverBackup"
                  /\ stData' = data
                  /\ stS' = NoStateRead
                  /\ stRes' = [res EXCEPT !.case = "corrupted", !.done = FALSE]
           ELSE IF am.err
             THEN /\ stRes' = [res EXCEPT !.case = "migfail", !.err = TRUE,
                                          !.from = parsed.version, !.calls = am.calls]
                  /\ UNCHANGED <<stPc, stData, stS>>
           ELSE IF am.s.version > CurrentVersion
             THEN /\ stPc' = "normalizeBackup"
                  /\ stData' = data
                  /\ stS' = am.s
                  /\ stRes' = [res EXCEPT !.case = "future", !.done = FALSE,
                                          !.from = parsed.version, !.calls = am.calls]
           ELSE /\ stRes' = [res EXCEPT !.case = "ok", !.state = am.s,
                                        !.from = parsed.version, !.calls = am.calls]
                /\ UNCHANGED <<stPc, stData, stS>>
    /\ UNCHANGED <<stFile, stCorrupted, stBak, stMig, stWrites>>
    /\ UNCHANGED notStoreVars

\* recoverCorruptedState: os.WriteFile(path+".corrupted", data); a failure is
\* logged and the function goes on
recoverCorruptedState_backup ==
    /\ stPc = "recoverBackup"
    /\ \E fails \in BOOLEAN :
         /\ stCorrupted' = IF fails THEN stCorrupted ELSE stData
         /\ stRes' = [stRes EXCEPT !.backupErr = fails]
    /\ stS' = FreshState
    /\ stPc' = "recoverSave"
    /\ UNCHANGED <<stFile, stBak, stMig, stData, stWrites, stReads>>
    /\ UNCHANGED notStoreVars

\* recoverCorruptedState: saveState(path, &s), then return &s and the error
recoverCorruptedState_save ==
    /\ stPc = "recoverSave"
    /\ \E fails \in BOOLEAN :
         /\ stFile' = IF fails THEN stFile ELSE Marshal(stS)
         /\ stRes' = [stRes EXCEPT !.saveErr = fails, !.done = TRUE, !.err = TRUE,
                                   !.state = stS, !.replaced = stFile,
                                   !.wrote = IF fails THEN NoFile ELSE Marshal(stS)]
    /\ stPc' = "idle"
    /\ UNCHANGED <<stCorrupted, stBak, stMig, stData, stS, stWrites, stReads>>
    /\ UNCHANGED notStoreVars

\* the archive is written but s.Version is left as it was
normalizeToCurrentVersion_backup_noReset ==
    /\ stPc = "normalizeBackup"
    /\ \E fails \in BOOLEAN :
         /\ stBak' = IF fails THEN stBak ELSE [stBak EXCEPT ![stS.version] = stData]
         /\ stRes' = [stRes EXCEPT !.backupErr = fails, !.bakN = stS.version]
    /\ stS' = stS
    /\ stPc' = "normalizeSave"
    /\ UNCHANGED <<stFile, stCorrupted, stMig, stData, stWrites, stReads>>
    /\ UNCHANGED notStoreVars

\* normalizeToCurrentVersion: os.WriteFile(path.v<s.Version>.bak, data); a
\* failure is logged and the function goes on
normalizeToCurrentVersion_backup ==
    /\ stPc = "normalizeBackup"
    /\ \E fails \in BOOLEAN :
         /\ stBak' = IF fails THEN stBak ELSE [stBak EXCEPT ![stS.version] = stData]
         /\ stRes' = [stRes EXCEPT !.backupErr = fails, !.bakN = stS.version]
    /\ stS' = [stS EXCEPT !.version = CurrentVersion]
    /\ stPc' = "normalizeSave"
    /\ UNCHANGED <<stFile, stCorrupted, stMig, stData, stWrites, stReads>>
    /\ UNCHANGED notStoreVars

\* normalizeToCurrentVersion: saveState(path, s); ReadState then returns s
normalizeToCurrentVersion_save ==
    /\ stPc = "normalizeSave"
    /\ \E fails \in BOOLEAN :
         /\ stFile' = IF fails THEN stFile ELSE Marshal(stS)
         /\ stRes' = [stRes EXCEPT !.saveErr = fails, !.done = TRUE,
                                   !.state = stS, !.replaced = stFile,
                                   !.wrote = IF fails THEN NoFile ELSE Marshal(stS)]
    /\ stPc' = "idle"
    /\ UNCHANGED <<stCorrupted, stBak, stMig, stData, stS, stWrites, stReads>>
    /\ UNCHANGED notStoreVars

InitStoreCommon ==
    /\ stCorrupted = NoFile
    /\ stBak = [n \in MigVersions |-> NoFile]
    /\ stPc = "idle"
    /\ stData = NoFile
    /\ stS = NoStateRead
    /\ stWrites = 0
    /\ stReads = 0
    /\ stRes = NoRes

InitStore ==
    /\ InitStoreCommon
    /\ stFile \in HookBytes \cup {NoFile}
    /\ stMig \in MigrationLists

InitStoreIdle ==
    /\ InitStoreCommon
    /\ stFile = NoFile
    /\ stMig = <<>>

NextStore ==
    \/ StoreWrite
    \/ ReadState_read
    \/ recoverCorruptedState_backup
    \/ recoverCorruptedState_save
    \/ normalizeToCurrentVersion_backup
    \/ normalizeToCurrentVersion_save

(***************************************************************************)
(* Multi-client state resolution: findLatestState, src/unnamed/part_012.   *)
(* A per-client file is held as what session.ReadState returns for it: no  *)
(* state (unreadable, or a failed migration), the fresh state of a         *)
(* corrupted file (lastActivity 0) with an error, or the state parsed.     *)
(***************************************************************************)
NoRead == [nil |-> TRUE, err |-> TRUE, client |-> "", lastActivity |-> 0]

ReadOutcomes(client) ==
    {NoRead, [nil |-> FALSE, err |-> TRUE, client |-> "", lastActivity |-> 0]}
        \cup {[nil |-> FALSE, err |-> FALSE, client |-> client, lastActivity |-> t] :
                t \in 1..MaxStamp}

\* the results of filepath.Glob: one file a client, in any order
GlobResults ==
    {<<>>}
      \cup UNION {{<<a>> : a \in ReadOutcomes(c)} : c \in Clients}
      \cup UNION {{<<a, b>> : a \in ReadOutcomes(c), b \in ReadOutcomes(e)} :
                    <<c, e>> \in {p \in Clients \X Clients : p[1] # p[2]}}
      \cup UNION {{<<a, b, g>> : a \in ReadOutcomes(p[1]), b \in ReadOutcomes(p[2]),
                                 g \in ReadOutcomes(p[3])} :
                    p \in {q \in Clients \X Clients \X Clients :
                              q[1] # q[2] /\ q[1] # q[3] /\ q[2] # q[3]}}

\* every candidate replaces best
newer_lastWins(s, best) == TRUE

\* best == nil || s.LastActivity > best.LastActivity
newer(s, best) == best.nil \/ s.lastActivity > best.lastActivity

\* one pass of the loop over matches, returning the read error of a file
findLatestState_step_abort ==
    /\ rsPc = "loop"
    /\ rsRest # <<>>
    /\ LET s == Head(rsRest)
       IN  IF s.err /\ s.nil
             THEN /\ rsResult' = NoRead
                  /\ rsPc' = "done"
                  /\ UNCHANGED rsBest
             ELSE /\ rsBest' = IF newer(s, rsBest) THEN s ELSE rsBest
                  /\ UNCHANGED <<rsResult, rsPc>>
    /\ rsRest' = Tail(rsRest)
    /\ UNCHANGED <<rsMatches, rsLegacy>>
    /\ UNCHANGED notResolveVars

\* one pass of the loop over matches
findLatestState_step ==
    /\ rsPc = "loop"
    /\ rsRest # <<>>
    /\ LET s == Head(rsRest)
       IN  rsBest' = IF s.err /\ s.nil THEN rsBest
                     ELSE IF newer(s, rsBest) THEN s
                     ELSE rsBest
    /\ rsRest' = Tail(rsRest)
    /\ UNCHANGED <<rsMatches, rsLegacy, rsPc, rsResult>>
    /\ UNCHANGED notResolveVars

\* if best != nil { return best, nil }
findLatestState_return ==
    /\ rsPc = "loop"
    /\ rsRest = <<>>
    /\ ~rsBest.nil
    /\ rsResult' = [rsBest EXCEPT !.err = FALSE]
    /\ rsPc' = "done"
    /\ UNCHANGED <<rsMatches, rsLegacy, rsRest, rsBest>>
    /\ UNCHANGED notResolveVars

\* return session.ReadState(legacyPath)
findLatestState_legacy ==
    /\ rsPc = "loop"
    /\ rsRest = <<>>
    /\ rsBest.nil
    /\ rsResult' = rsLegacy
    /\ rsPc' = "done"
    /\ UNCHANGED <<rsMatches, rsLegacy, rsRest, rsBest>>
    /\ UNCHANGED notResolveVars

InitResolveCommon ==
    /\ rsRest = rsMatches
    /\ rsBest = NoRead
    /\ rsPc = "loop"
    /\ rsResult = NoRead

InitResolve ==
    /\ rsMatches \in GlobResults
    /\ rsLegacy \in ReadOutcomes("unknown")
    /\ InitResolveCommon

InitResolveIdle ==
    /\ rsMatches = <<>>
    /\ rsLegacy = NoRead
    /\ InitResolveCommon

NextResolve ==
    \/ findLatestState_step
    \/ findLatestState_return
    \/ findLatestState_legacy

(***************************************************************************)
(* Presentation engine called on its own: BuildActivityWithData over every *)
(* state and configuration, the age of the state counted in minutes.       *)
(***************************************************************************)
BuildStates ==
    [nil : {FALSE}, client : {"claude-code"}, stopped : BOOLEAN, cwd : Cwds,
     text : Texts, age : 0..MaxAge]

\* behavior.presence_idle_minutes (0 disables idle detection) and idle_mode
BuildCfgs == [idleMinutes : 0..MaxIdleMinutes, idleMode : IdleModes, daemonIdle : {0}]

BuildActivity_call ==
    /\ bdPc = "call"
    /\ bdResult' = BuildActivityWithData(bdState, bdCfg, DefaultLargeImage)
    /\ bdPc' = "returned"
    /\ UNCHANGED <<bdState, bdCfg>>
    /\ UNCHANGED notBuildVars

InitBuild ==
    /\ bdState \in BuildStates
    /\ bdCfg \in BuildCfgs
    /\ bdPc = "call"
    /\ bdResult = NoActivity

InitBuildIdle ==
    /\ bdState = NoState
    /\ bdCfg = [idleMinutes |-> 0, idleMode |-> "clear", daemonIdle |-> 0]
    /\ bdPc = "call"
    /\ bdResult = NoActivity

NextBuild == BuildActivity_call

(***************************************************************************)
(* IPC client, connection and handshake: src/internal/discord/client.go.   *)
(* The peer's part in one Connect is held as what the client meets step by *)
(* step: whether the endpoint can be dialled, whether the handshake frame  *)
(* can be written, whether a response frame can be read, its opcode,       *)
(* whether its payload is JSON, its "evt" and the shape of its "data".     *)
(***************************************************************************)
OpFrame == 1
OpClose == 2

NoHandle == 0

Peers ==
    [reach : BOOLEAN, write : BOOLEAN, frame : BOOLEAN, opcode : {OpFrame, OpClose},
     json : BOOLEAN, evt : {"", "READY", "ERROR"}, data : {"none", "map", "string"}]

NoPeer ==
    [reach |-> FALSE, write |-> FALSE, frame |-> FALSE, opcode |-> OpFrame,
     json |-> FALSE, evt |-> "", data |-> "none"]

\* Client.handshake: "nil", "error", or "panic" for the unchecked type
\* assertion resp["data"].(map[string]any) on a value that is no object
handshake(p) ==
    IF ~p.write THEN "error"
    ELSE IF ~p.frame THEN "error"
    ELSE IF p.opcode # OpFrame THEN "error"
    ELSE IF ~p.json THEN "error"
    ELSE IF p.evt = "ERROR"
      THEN IF p.data = "map" THEN "error" ELSE "panic"
    ELSE "nil"

\* Client.Connect
Client_Connect ==
    /\ hsRet # "panic"
    /\ hsHandles < MaxConnects
    /\ \E p \in Peers :
         LET closedOld == hsOpen \ {hsConn}
             h == hsHandles + 1
         IN  /\ hsPeer' = p
             /\ IF ~p.reach
                  THEN /\ hsConn' = NoHandle
                       /\ hsOpen' = closedOld
                       /\ hsHandles' = hsHandles
                       /\ hsRet' = "error"
                  ELSE /\ hsHandles' = h
                       /\ hsRet' = handshake(p)
                       /\ IF handshake(p) = "error"
                            THEN hsConn' = NoHandle /\ hsOpen' = closedOld
                            ELSE hsConn' = h /\ hsOpen' = closedOld \cup {h}
    /\ UNCHANGED notClientVars

\* Client.Close
Client_Close ==
    /\ hsRet # "panic"
    /\ hsConn # NoHandle
    /\ hsOpen' = hsOpen \ {hsConn}
    /\ hsConn' = NoHandle
    /\ hsRet' = "closed"
    /\ UNCHANGED <<hsHandles, hsPeer>>
    /\ UNCHANGED notClientVars

\* NewClient
InitClient ==
    /\ hsConn = NoHandle
    /\ hsOpen = {}
    /\ hsHandles = 0
    /\ hsPeer = NoPeer
    /\ hsRet = "none"

NextClient ==
    \/ Client_Connect
    \/ Client_Close

(***************************************************************************)
(* IPC client under concurrent callers: every exported method of Client    *)
(* locks c.mu first and unlocks it on return (defer).  One action a step   *)
(* of a method, so that what the mutex excludes can be seen.               *)
(***************************************************************************)
Callers == 1..MaxCallers
NoCaller == 0

Methods == {"Connect", "SetActivity", "ClearActivity", "Close", "Connected"}

\* the positions between c.mu.Lock() and c.mu.Unlock()
Inside == {"send", "write", "close", "closeConn", "connect", "dial", "handshake",
           "connected", "unlock"}

\* a goroutine calls a method of the client
Client_call(t) ==
    /\ snPc[t] = "idle"
    /\ snCalls < MaxCalls
    /\ snCalls' = snCalls + 1
    /\ \E m \in Methods : snOp' = [snOp EXCEPT ![t] = m]
    /\ snPc' = [snPc EXCEPT ![t] = "lock"]
    /\ UNCHANGED <<snMu, snConn, snOpen, snHandles, snNonce, snLocal, snWire>>
    /\ UNCHANGED notSendVars

Entry(m) ==
    CASE m = "Connect" -> "connect"
      [] m = "Close" -> "close"
      [] m = "Connected" -> "connected"
      [] OTHER -> "send"

\* a lock that lets every caller in
Client_lock_noExclusion(t) ==
    /\ snPc[t] = "lock"
    /\ snMu' = t
    /\ snPc' = [snPc EXCEPT ![t] = Entry(snOp[t])]
    /\ UNCHANGED <<snConn, snOpen, snHandles, snNonce, snOp, snLocal, snCalls, snWire>>
    /\ UNCHANGED notSendVars

\* c.mu.Lock()
Client_lock(t) ==
    /\ snPc[t] = "lock"
    /\ snMu = NoCaller
    /\ snMu' = t
    /\ snPc' = [snPc EXCEPT ![t] = Entry(snOp[t])]
    /\ UNCHANGED <<snConn, snOpen, snHandles, snNonce, snOp, snLocal, snCalls, snWire>>
    /\ UNCHANGED notSendVars

\* sendCommand that reuses the nonce it finds
sendCommand_nonce_noIncrement(t) ==
    /\ snPc[t] = "send"
    /\ IF snConn = NoHandle
         THEN /\ snPc' = [snPc EXCEPT ![t] = "unlock"]
              /\ UNCHANGED <<snNonce, snLocal>>
         ELSE /\ snNonce' = snNonce
              /\ snLocal' = [snLocal EXCEPT ![t] = snNonce]
              /\ snPc' = [snPc EXCEPT ![t] = "write"]
    /\ UNCHANGED <<snMu, snConn, snOpen, snHandles, snOp, snCalls, snWire>>
    /\ UNCHANGED notSendVars

\* sendCommand: ErrNotConnected without a connection, else c.nonce++ and
\* nonce := FormatUint(c.nonce)
sendCommand_nonce(t) ==
    /\ snPc[t] = "send"
    /\ IF snConn = NoHandle
         THEN /\ snPc' = [snPc EXCEPT ![t] = "unlock"]
              /\ UNCHANGED <<snNonce, snLocal>>
         ELSE /\ snNonce' = snNonce + 1
              /\ snLocal' = [snLocal EXCEPT ![t] = snNonce + 1]
              /\ snPc' = [snPc EXCEPT ![t] = "write"]
    /\ UNCHANGED <<snMu, snConn, snOpen, snHandles, snOp, snCalls, snWire>>
    /\ UNCHANGED notSendVars

\* sendCommand: c.conn.Write(frame).  The frame goes to the handle c.conn
\* names now; the entry notes whether that handle was open and whether the
\* writer held c.mu.
sendCommand_write(t) ==
    /\ snPc[t] = "write"
    /\ snWire' = Append(snWire, [h |-> snConn, nonce |-> snLocal[t], by |-> t,
                                 method |-> snOp[t], open |-> snConn \in snOpen,
                                 held |-> snMu = t])
    /\ snPc' = [snPc EXCEPT ![t] = IF snOp[t] = "Close" THEN "closeConn" ELSE "unlock"]
    /\ UNCHANGED <<snMu, snConn, snOpen, snHandles, snNonce, snOp, snLocal, snCalls>>
    /\ UNCHANGED notSendVars

\* Close: if c.conn == nil { return nil }, else the best-effort clear
Client_Close_check(t) ==
    /\ snPc[t] = "close"
    /\ snPc' = [snPc EXCEPT ![t] = IF snConn = NoHandle THEN "unlock" ELSE "send"]
    /\ UNCHANGED <<snMu, snConn, snOpen, snHandles, snNonce, snOp, snLocal, snCalls, snWire>>
    /\ UNCHANGED notSendVars

\* Close: c.conn.Close(); c.conn = nil
Client_Close_conn(t) ==
    /\ snPc[t] = "closeConn"
    /\ snOpen' = snOpen \ {snConn}
    /\ snConn' = NoHandle
    /\ snPc' = [snPc EXCEPT ![t] = "unlock"]
    /\ UNCHANGED <<snMu, snHandles, snNonce, snOp, snLocal, snCalls, snWire>>
    /\ UNCHANGED notSendVars

\* Connect: the old connection is closed and forgotten
Client_Connect_closeOld(t) ==
    /\ snPc[t] = "connect"
    /\ snOpen' = snOpen \ {snConn}
    /\ snConn' = NoHandle
    /\ snPc' = [snPc EXCEPT ![t] = "dial"]
    /\ UNCHANGED <<snMu, snHandles, snNonce, snOp, snLocal, snCalls, snWire>>
    /\ UNCHANGED notSendVars

\* Connect: connectToDiscord(), an error returns at once
Client_Connect_dial(t) ==
    /\ snPc[t] = "dial"
    /\ \E ok \in BOOLEAN :
         IF ok /\ snHandles < MaxConnects
           THEN /\ snHandles' = snHandles + 1
                /\ snConn' = snHandles + 1
                /\ snOpen' = snOpen \cup {snHandles + 1}
                /\ snPc' = [snPc EXCEPT ![t] = "handshake"]
           ELSE /\ snPc' = [snPc EXCEPT ![t] = "unlock"]
                /\ UNCHANGED <<snHandles, snConn, snOpen>>
    /\ UNCHANGED <<snMu, snNonce, snOp, snLocal, snCalls, snWire>>
    /\ UNCHANGED notSendVars

\* Connect: c.handshake(); on an error c.conn.Close(), c.conn = nil
Client_Connect_handshake(t) ==
    /\ snPc[t] = "handshake"
    /\ \E ok \in BOOLEAN :
         IF ok
           THEN UNCHANGED <<snConn, snOpen>>
           ELSE /\ snOpen' = snOpen \ {snConn}
                /\ snConn' = NoHandle
    /\ snPc' = [snPc EXCEPT ![t] = "unlock"]
    /\ UNCHANGED <<snMu, snHandles, snNonce, snOp, snLocal, snCalls, snWire>>
    /\ UNCHANGED notSendVars

\* Connected: return c.conn != nil
Client_Connected(t) ==
    /\ snPc[t] = "connected"
    /\ snPc' = [snPc EXCEPT ![t] = "unlock"]
    /\ UNCHANGED <<snMu, snConn, snOpen, snHandles, snNonce, snOp, snLocal, snCalls, snWire>>
    /\ UNCHANGED notSendVars

\* the deferred c.mu.Unlock()
Client_unlock(t) ==
    /\ snPc[t] = "unlock"
    /\ snMu' = NoCaller
    /\ snPc' = [snPc EXCEPT ![t] = "idle"]
    /\ UNCHANGED <<snConn, snOpen, snHandles, snNonce, snOp, snLocal, snCalls, snWire>>
    /\ UNCHANGED notSendVars

\* NewClient, connected or not when the callers start
InitSendCommon ==
    /\ snMu = NoCaller
    /\ snNonce = 0
    /\ snPc = [t \in Callers |-> "idle"]
    /\ snOp = [t \in Callers |-> "Connected"]
    /\ snLocal = [t \in Callers |-> 0]
    /\ snCalls = 0
    /\ snWire = <<>>

InitSend ==
    /\ InitSendCommon
    /\ \/ snConn = NoHandle /\ snOpen = {} /\ snHandles = 0
       \/ snConn = 1 /\ snOpen = {1} /\ snHandles = 1

InitSendIdle ==
    /\ InitSendCommon
    /\ snConn = NoHandle /\ snOpen = {} /\ snHandles = 0

NextSend ==
    \E t \in Callers :
        \/ Client_call(t)
        \/ Client_lock(t)
        \/ sendCommand_nonce(t)
        \/ sendCommand_write(t)
        \/ Client_Close_check(t)
        \/ Client_Close_conn(t)
        \/ Client_Connect_closeOld(t)
        \/ Client_Connect_dial(t)
        \/ Client_Connect_handshake(t)
        \/ Client_Connected(t)
        \/ Client_unlock(t)

(***************************************************************************)
(* Connect attempt chain: connectWithRetry, src/unnamed/part_012, and the  *)
(* Connect it calls, src/internal/discord/client.go.  The peer of an       *)
(* attempt is down (no endpoint accepts), rejects the handshake, answers   *)
(* it, or accepts the connection and never sends a response frame.         *)
(***************************************************************************)
maxAttempts == 10

PeerKinds == {"down", "rejects", "ready", "silent"}

\* for i := range maxAttempts { err := client.Connect() ...
connectWithRetry_attempt ==
    /\ crPc = "loop"
    /\ crI < maxAttempts
    /\ \E p \in PeerKinds : crPeer' = p
    /\ crAttempts' = crAttempts + 1
    /\ crPc' = "dial"
    /\ UNCHANGED <<crI, crSleeps, crRet>>
    /\ UNCHANGED notRetryVars

\* Connect: connectToDiscord(), and the handshake frame written
Connect_dial ==
    /\ crPc = "dial"
    /\ crPc' = IF crPeer = "down" THEN "failed" ELSE "read"
    /\ UNCHANGED <<crI, crPeer, crAttempts, crSleeps, crRet>>
    /\ UNCHANGED notRetryVars

\* handshake: DecodeFrame(c.conn).  io.ReadFull returns when the peer has
\* sent the frame (or closed); no read deadline is set on the connection.
handshake_read ==
    /\ crPc = "read"
    /\ crPeer # "silent"
    /\ crPc' = IF crPeer = "ready" THEN "connected" ELSE "failed"
    /\ UNCHANGED <<crI, crPeer, crAttempts, crSleeps, crRet>>
    /\ UNCHANGED notRetryVars

\* if err == nil { return nil }
connectWithRetry_success ==
    /\ crPc = "connected"
    /\ crRet' = "nil"
    /\ crPc' = "returned"
    /\ UNCHANGED <<crI, crPeer, crAttempts, crSleeps>>
    /\ UNCHANGED notRetryVars

\* the loop sleeps after every failure, the last one too
connectWithRetry_failed_alwaysSleep ==
    /\ crPc = "failed"
    /\ crPc' = "sleep"
    /\ UNCHANGED <<crI, crPeer, crAttempts, crSleeps, crRet>>
    /\ UNCHANGED notRetryVars

\* slog.Warn(...); if i < maxAttempts-1 { time.Sleep(interval) }
connectWithRetry_failed ==
    /\ crPc = "failed"
    /\ IF crI < maxAttempts - 1
         THEN crPc' = "sleep" /\ crI' = crI
         ELSE crPc' = "loop" /\ crI' = crI + 1
    /\ UNCHANGED <<crPeer, crAttempts, crSleeps, crRet>>
    /\ UNCHANGED notRetryVars

\* time.Sleep(interval) returns, next i
connectWithRetry_sleep ==
    /\ crPc = "sleep"
    /\ crSleeps' = crSleeps + 1
    /\ crI' = crI + 1
    /\ crPc' = "loop"
    /\ UNCHANGED <<crPeer, crAttempts, crRet>>
    /\ UNCHANGED notRetryVars

\* return fmt.Errorf("failed to connect after %d attempts", maxAttempts)
connectWithRetry_exhausted ==
    /\ crPc = "loop"
    /\ crI >= maxAttempts
    /\ crRet' = "error"
    /\ crPc' = "returned"
    /\ UNCHANGED <<crI, crPeer, crAttempts, crSleeps>>
    /\ UNCHANGED notRetryVars

InitRetry ==
    /\ crI = 0
    /\ crPc = "loop"
    /\ crPeer = "down"
    /\ crAttempts = 0
    /\ crSleeps = 0
    /\ crRet = ""

NextRetry ==
    \/ connectWithRetry_attempt
    \/ Connect_dial
    \/ handshake_read
    \/ connectWithRetry_success
    \/ connectWithRetry_failed
    \/ connectWithRetry_sleep
    \/ connectWithRetry_exhausted

(***************************************************************************)
(* Signal and shutdown: run's select loop (src/unnamed/part_012:467-487),  *)
(* the signal channel (src/unnamed/part_011:25-29) and the functions main  *)
(* deferred, run in reverse order once run returns: watcher.Close(),       *)
(* client.Close(), removePID.  A cycle of the loop is taken as far as it   *)
(* matters for leaving the loop: whether it calls Connect and how that     *)
(* call ends.                                                              *)
(***************************************************************************)
\* the OS delivers SIGINT or SIGTERM: signal.Notify puts it into the
\* channel of capacity 1, a second one is dropped while the first waits
OSSignal ==
    /\ sdPc \notin {"exited"}
    /\ ~sdSig
    /\ sdSig' = TRUE
    /\ UNCHANGED <<sdPc, sdCase, sdFrom, sdPeer, sdConn, sdWatcher, sdCleared, sdPid,
                   sdMtime, sdSeen, sdPending>>
    /\ UNCHANGED notShutdownVars

\* case <-sigCh: return
select_signal ==
    /\ sdPc = "select"
    /\ sdSig
    /\ sdSig' = FALSE
    /\ sdPc' = "returned"
    /\ UNCHANGED <<sdCase, sdFrom, sdPeer, sdConn, sdWatcher, sdCleared, sdPid,
                   sdMtime, sdSeen, sdPending>>
    /\ UNCHANGED notShutdownVars

\* case <-watcher.Events(), case <-pollTicker.C
select_work ==
    /\ sdPc = "select"
    /\ \/ /\ sdPending = 1
          /\ sdPending' = 0
          /\ sdCase' = "event"
       \/ /\ sdCase' = "tick"
          /\ UNCHANGED sdPending
    /\ sdSeen' = sdMtime
    /\ sdPc' = "process"
    /\ UNCHANGED <<sdFrom, sdSig, sdPeer, sdConn, sdWatcher, sdCleared, sdPid, sdMtime>>
    /\ UNCHANGED notShutdownVars

\* processState without a change of application id; a failed send leaves
\* the connection to handleReconnect
processState_publish ==
    /\ sdPc = "process"
    /\ sdPc' = IF sdCase = "tick" THEN "tail" ELSE "select"
    /\ UNCHANGED <<sdCase, sdFrom, sdSig, sdPeer, sdConn, sdWatcher, sdCleared, sdPid,
                   sdMtime, sdSeen, sdPending>>
    /\ UNCHANGED notShutdownVars

\* the peer goes away
PeerGone ==
    /\ sdPc \in {"select", "process", "tail"}
    /\ sdConn
    /\ sdConn' = FALSE
    /\ UNCHANGED <<sdPc, sdCase, sdFrom, sdSig, sdPeer, sdWatcher, sdCleared, sdPid,
                   sdMtime, sdSeen, sdPending>>
    /\ UNCHANGED notShutdownVars

\* processState on a change of application id: Close, NewClient,
\* connectWithRetry
processState_appSwitch ==
    /\ sdPc = "process"
    /\ \E p \in PeerKinds : sdPeer' = p
    /\ sdConn' = FALSE
    /\ sdFrom' = "processState"
    /\ sdPc' = "connect"
    /\ UNCHANGED <<sdCase, sdSig, sdWatcher, sdCleared, sdPid,
                   sdMtime, sdSeen, sdPending>>
    /\ UNCHANGED notShutdownVars

\* the tick's tail: cleanupOrphanedSessions, checkDaemonIdle (return),
\* handleReconnect (connectWithRetry when not connected)
tick_tail ==
    /\ sdPc = "tail"
    /\ \/ /\ sdPc' = "returned"
          /\ UNCHANGED <<sdFrom, sdPeer>>
       \/ /\ sdConn
          /\ sdPc' = "select"
          /\ UNCHANGED <<sdFrom, sdPeer>>
       \/ /\ ~sdConn
          /\ \E p \in PeerKinds : sdPeer' = p
          /\ sdFrom' = "handleReconnect"
          /\ sdPc' = "connect"
    /\ UNCHANGED <<sdCase, sdSig, sdConn, sdWatcher, sdCleared, sdPid,
                   sdMtime, sdSeen, sdPending>>
    /\ UNCHANGED notShutdownVars

\* connectWithRetry returns: nil when the peer answers the handshake, the
\* error after the attempts are used up; with a peer that never answers,
\* Connect does not return.  On an error processState returns to
\* the loop and handleReconnect makes run return.
connect_returns ==
    /\ sdPc = "connect"
    /\ sdPeer # "silent"
    /\ sdConn' = (sdPeer = "ready")
    /\ sdPc' = IF sdFrom = "handleReconnect"
                 THEN IF sdPeer = "ready" THEN "select" ELSE "returned"
                 ELSE IF sdCase = "tick" THEN "tail" ELSE "select"
    /\ UNCHANGED <<sdCase, sdFrom, sdSig, sdPeer, sdWatcher, sdCleared, sdPid,
                   sdMtime, sdSeen, sdPending>>
    /\ UNCHANGED notShutdownVars

\* defer watcher.Close()
deferred_watcherClose ==
    /\ sdPc = "returned"
    /\ sdWatcher' = "closed"
    /\ sdPc' = "closeClient"
    /\ UNCHANGED <<sdCase, sdFrom, sdSig, sdPeer, sdConn, sdCleared, sdPid,
                   sdMtime, sdSeen, sdPending>>
    /\ UNCHANGED notShutdownVars

\* defer func() { client.Close() }(): the clear is tried when c.conn != nil
deferred_clientClose ==
    /\ sdPc = "closeClient"
    /\ sdCleared' = sdConn
    /\ sdConn' = FALSE
    /\ sdPc' = "removePID"
    /\ UNCHANGED <<sdCase, sdFrom, sdSig, sdPeer, sdWatcher, sdPid,
                   sdMtime, sdSeen, sdPending>>
    /\ UNCHANGED notShutdownVars

\* defer removePID(paths, token, pidFile): unlock and close, then remove
deferred_removePID ==
    /\ sdPc = "removePID"
    /\ sdPid' = "removed"
    /\ sdPc' = "exited"
    /\ UNCHANGED <<sdCase, sdFrom, sdSig, sdPeer, sdConn, sdWatcher, sdCleared,
                   sdMtime, sdSeen, sdPending>>
    /\ UNCHANGED notShutdownVars

\* a hook creates or writes a state file; the watcher calls notify(), which
\* queues a signal when none is pending and drops it otherwise, or the watcher
\* does not report the change (the fallback to polling is under way)
StateFileWritten ==
    /\ sdPc \notin {"returned", "closeClient", "removePID", "exited"}
    /\ sdMtime < MaxMutations
    /\ sdMtime' = sdMtime + 1
    /\ \/ sdPending' = 1
       \/ UNCHANGED sdPending
    /\ UNCHANGED <<sdPc, sdCase, sdFrom, sdSig, sdPeer, sdConn, sdWatcher, sdCleared,
                   sdPid, sdSeen>>
    /\ UNCHANGED notShutdownVars

LoopStep ==
    \/ select_work
    \/ processState_publish
    \/ processState_appSwitch
    \/ tick_tail
    \/ connect_returns

DeferredStep ==
    \/ deferred_watcherClose
    \/ deferred_clientClose
    \/ deferred_removePID

\* run() entered: connected, watcher open, PID file locked
InitShutdown ==
    /\ sdPc = "process"
    /\ sdCase = "event"
    /\ sdFrom = "processState"
    /\ sdSig = FALSE
    /\ sdPeer = "ready"
    /\ sdConn = TRUE
    /\ sdWatcher = "open"
    /\ sdCleared = FALSE
    /\ sdPid = "locked"
    /\ sdMtime = 0
    /\ sdSeen = 0
    /\ sdPending = 0

NextShutdown ==
    \/ OSSignal
    \/ StateFileWritten
    \/ select_signal
    \/ PeerGone
    \/ LoopStep
    \/ DeferredStep

(***************************************************************************)
(* Orphaned session markers: cleanupOrphanedSessions                       *)
(* (src/unnamed/part_012:744-771) with the clock in minutes.  A marker is  *)
(* "old" when its mtime is before now - maxAge.                            *)
(***************************************************************************)
cleanupInterval == 10

Markers == {"a", "b"}

\* time.Since(ls.lastCleanup) < cleanupInterval; the zero time is far back
insideInterval_never(last, now) == FALSE
insideInterval(last, now) == last # ZeroTime /\ now - last < cleanupInterval

\* a minute passes
Minute ==
    /\ clNow < MaxNow
    /\ clNow' = clNow + 1
    /\ UNCHANGED <<clLast, clFiles, clDir, clScans, clCalls>>
    /\ UNCHANGED notCleanupVars

\* a hook writes a session marker (creating the directory), or the marker of
\* a session that ended without its hook grows older than maxAge
MarkerChange ==
    /\ \E m \in Markers :
         \/ /\ clFiles' = [clFiles EXCEPT ![m] = "fresh"]
            /\ clDir' = TRUE
         \/ /\ clFiles[m] = "fresh"
            /\ clFiles' = [clFiles EXCEPT ![m] = "old"]
            /\ UNCHANGED clDir
    /\ UNCHANGED <<clNow, clLast, clScans, clCalls>>
    /\ UNCHANGED notCleanupVars

\* cleanupOrphanedSessions(sessDir, maxAge, ls), called at a poll tick
cleanupOrphanedSessions_call ==
    /\ clCalls < MaxCleanupCalls
    /\ clCalls' = clCalls + 1
    /\ IF insideInterval(clLast, clNow)
         THEN UNCHANGED <<clLast, clFiles, clScans>>
         ELSE /\ clLast' = clNow
              /\ clScans' = Append(clScans, clNow)
              /\ IF clDir
                   THEN clFiles' = [m \in Markers |->
                                      IF clFiles[m] = "old" THEN "none" ELSE clFiles[m]]
                   ELSE UNCHANGED clFiles
    /\ UNCHANGED <<clNow, clDir>>
    /\ UNCHANGED notCleanupVars

\* run() entered: loopState{} has the zero lastCleanup
InitCleanup ==
    /\ clNow = 0
    /\ clLast = ZeroTime
    /\ clFiles = [m \in Markers |-> "none"]
    /\ clDir = FALSE
    /\ clScans = <<>>
    /\ clCalls = 0

NextCleanup ==
    \/ Minute
    \/ MarkerChange
    \/ cleanupOrphanedSessions_call

(***************************************************************************)
(* Temp file and rename: atomicfile.Write                                  *)
(* (src/internal/atomicfile/write.go:17-52), called by saveState           *)
(* (src/unnamed/part_007:366-372), and write_state of the hook scripts     *)
(* (src/scripts/hooks/lib/unix/common.sh:39-43).  The directory maps names *)
(* to inodes; a record is written in RecLen chunks; rename replaces the    *)
(* directory entry in one step and an open file keeps its inode.           *)
(***************************************************************************)
AfNone == 0
RecLen == 2
Writers == 1..MaxWriters
StatePath == 0

\* the name written before the rename: base.tmp.<random> of os.CreateTemp,
\* $STATE_PATH.tmp.$$ of write_state; one per writing process
tmpName_inPlace(w) == StatePath
tmpName(w) == w

Record(r) == [i \in 1..RecLen |-> <<r, i>>]
Complete(c) == \E r \in 0..MaxAtomicWrites + 1 : c = Record(r)

AfIdle == [pc |-> "idle", kind |-> "", rec |-> 0, n |-> 0]

\* os.CreateTemp(dir, base+".tmp.*") / cat > "$tmp" (open, truncating)
Write_create(w) ==
    /\ afW[w].pc \in {"idle", "crashed"}
    /\ afWrites < MaxAtomicWrites
    /\ afWrites' = afWrites + 1
    /\ \E k \in {"store", "hook"} :
         afW' = [afW EXCEPT ![w] = [pc |-> "write", kind |-> k,
                                    rec |-> afWrites + 1, n |-> 0]]
    /\ IF afDir[tmpName(w)] = AfNone
         THEN /\ afIno' = Append(afIno, <<>>)
              /\ afDir' = [afDir EXCEPT ![tmpName(w)] = Len(afIno) + 1]
         ELSE /\ afIno' = [afIno EXCEPT ![afDir[tmpName(w)]] = <<>>]
              /\ UNCHANGED afDir
    /\ UNCHANGED <<afRdIno, afRead>>
    /\ UNCHANGED notAtomicVars

\* f.Write(data) / cat: the bytes reach the file chunk by chunk
Write_chunk(w) ==
    /\ afW[w].pc = "write"
    /\ afW[w].n < RecLen
    /\ afIno' = [afIno EXCEPT ![afDir[tmpName(w)]] =
                   Append(@, <<afW[w].rec, afW[w].n + 1>>)]
    /\ afW' = [afW EXCEPT ![w].n = @ + 1,
                          ![w].pc = IF afW[w].n + 1 = RecLen THEN "written" ELSE "write"]
    /\ UNCHANGED <<afDir, afWrites, afRdIno, afRead>>
    /\ UNCHANGED notAtomicVars

\* a failed f.Write, f.Sync, f.Close, os.Chmod or os.Rename: the deferred
\* os.Remove(tmpName) runs and Write returns the error
Write_failed(w) ==
    /\ afW[w].pc \in {"write", "written"}
    /\ afW[w].kind = "store"
    /\ afDir' = [afDir EXCEPT ![tmpName(w)] = AfNone]
    /\ afW' = [afW EXCEPT ![w] = AfIdle]
    /\ UNCHANGED <<afIno, afWrites, afRdIno, afRead>>
    /\ UNCHANGED notAtomicVars

\* os.Rename(tmpName, path) / mv -f "$tmp" "$STATE_PATH"
Write_rename(w) ==
    /\ afW[w].pc = "written"
    /\ afDir' = [[afDir EXCEPT ![tmpName(w)] = AfNone]
                   EXCEPT ![StatePath] = afDir[tmpName(w)]]
    /\ afW' = [afW EXCEPT ![w] = AfIdle]
    /\ UNCHANGED <<afIno, afWrites, afRdIno, afRead>>
    /\ UNCHANGED notAtomicVars

\* the writing process is killed: nothing of it runs any more
Write_crash(w) ==
    /\ afW[w].pc \in {"write", "written"}
    /\ afW' = [afW EXCEPT ![w] = [AfIdle EXCEPT !.pc = "crashed"]]
    /\ UNCHANGED <<afDir, afIno, afWrites, afRdIno, afRead>>
    /\ UNCHANGED notAtomicVars

\* os.ReadFile(path) of ReadState: open
Read_open ==
    /\ afRdIno = AfNone
    /\ afDir[StatePath] # AfNone
    /\ afRdIno' = afDir[StatePath]
    /\ UNCHANGED <<afDir, afIno, afW, afWrites, afRead>>
    /\ UNCHANGED notAtomicVars

\* os.ReadFile(path) of ReadState: read to the end and close
Read_all ==
    /\ afRdIno # AfNone
    /\ afRead' = [nil |-> FALSE, data |-> afIno[afRdIno]]
    /\ afRdIno' = AfNone
    /\ UNCHANGED <<afDir, afIno, afW, afWrites>>
    /\ UNCHANGED notAtomicVars

AfCommon ==
    /\ afW = [w \in Writers |-> AfIdle]
    /\ afWrites = 0
    /\ afRdIno = AfNone
    /\ afRead = [nil |-> TRUE, data |-> <<>>]

\* a state file written earlier, or none yet
InitAtomic ==
    /\ \/ /\ afDir = [n \in {StatePath} \cup Writers |-> AfNone]
          /\ afIno = <<>>
       \/ /\ afDir = [n \in {StatePath} \cup Writers |->
                        IF n = StatePath THEN 1 ELSE AfNone]
          /\ afIno = <<Record(0)>>
    /\ AfCommon

InitAtomicIdle ==
    /\ afDir = [n \in {StatePath} \cup Writers |-> AfNone]
    /\ afIno = <<>>
    /\ AfCommon

NextAtomic ==
    \/ \E w \in Writers :
         \/ Write_create(w)
         \/ Write_chunk(w)
         \/ Write_failed(w)
         \/ Write_rename(w)
         \/ Write_crash(w)
    \/ Read_open
    \/ Read_all

(***************************************************************************)
(* Frame codec: EncodeFrame and DecodeFrame (src/unnamed/part_002:462-498).*)
(* A byte string is a sequence of runs [b, n] (n times the byte b), so     *)
(* that strings of a megabyte are values; a uint32 is held as its two      *)
(* 16-bit halves [hi, lo], the model's integers being 32-bit signed.       *)
(***************************************************************************)
MaxPayloadSize == 1048576
frameHeaderSize == 8

RECURSIVE RLen(_)
RLen(r) == IF r = <<>> THEN 0 ELSE r[1].n + RLen(Tail(r))

\* the first k bytes (fewer when the string is shorter)
RECURSIVE RTake(_, _)
RTake(r, k) ==
    IF k = 0 \/ r = <<>> THEN <<>>
    ELSE IF r[1].n <= k THEN <<r[1]>> \o RTake(Tail(r), k - r[1].n)
    ELSE <<[b |-> r[1].b, n |-> k]>>

\* what follows the first k bytes
RECURSIVE RDrop(_, _)
RDrop(r, k) ==
    IF k = 0 \/ r = <<>> THEN r
    ELSE IF r[1].n <= k THEN RDrop(Tail(r), k - r[1].n)
    ELSE <<[b |-> r[1].b, n |-> r[1].n - k]>> \o Tail(r)

\* byte i (from 1) of a string that has it
RECURSIVE RAt(_, _)
RAt(r, i) == IF i <= r[1].n THEN r[1].b ELSE RAt(Tail(r), i - r[1].n)

\* the same bytes with equal neighbouring runs joined: bytes.Equal
RECURSIVE Norm(_)
Norm(r) ==
    IF Len(r) < 2 THEN r
    ELSE IF r[1].b = r[2].b
           THEN Norm(<<[b |-> r[1].b, n |-> r[1].n + r[2].n]>> \o Tail(Tail(r)))
           ELSE <<r[1]>> \o Norm(Tail(r))

U32(hi, lo) == [hi |-> hi, lo |-> lo]

\* uint32(len(payload)) of an int
ToU32(n) == U32((n \div 65536) % 65536, n % 65536)

\* binary.LittleEndian.PutUint32
PutUint32_bigEndian(u) ==
    <<[b |-> u.hi \div 256, n |-> 1], [b |-> u.hi % 256, n |-> 1],
      [b |-> u.lo \div 256, n |-> 1], [b |-> u.lo % 256, n |-> 1]>>
PutUint32(u) ==
    <<[b |-> u.lo % 256, n |-> 1], [b |-> u.lo \div 256, n |-> 1],
      [b |-> u.hi % 256, n |-> 1], [b |-> u.hi \div 256, n |-> 1]>>

\* binary.LittleEndian.Uint32 of four bytes
Uint32(r) == U32(RAt(r, 3) + 256 * RAt(r, 4), RAt(r, 1) + 256 * RAt(r, 2))

\* length > MaxPayloadSize on a uint32
lengthTooLarge_int32(u) ==
    u.hi < 32768 /\ (u.hi > MaxPayloadSize \div 65536
                       \/ (u.hi = MaxPayloadSize \div 65536 /\ u.lo > MaxPayloadSize % 65536))
lengthTooLarge(u) ==
    \/ u.hi > MaxPayloadSize \div 65536
    \/ u.hi = MaxPayloadSize \div 65536 /\ u.lo > MaxPayloadSize % 65536

NoBuffer == [none |-> TRUE, size |-> U32(0, 0)]
Buffer(u) == [none |-> FALSE, size |-> u]

\* EncodeFrame(opcode, payload)
EncodeFrame(opcode, payload) ==
    IF RLen(payload) > MaxPayloadSize
      THEN [frame |-> <<>>, err |-> "ErrPayloadTooLarge"]
      ELSE [frame |-> PutUint32(opcode) \o PutUint32(ToU32(RLen(payload))) \o payload,
            err |-> "nil"]

\* io.ReadFull(reader, payload) finds fewer than length bytes
ShortOf(rest, u) == u.hi >= 32768 \/ RLen(rest) < u.hi * 65536 + u.lo

\* DecodeFrame(reader): the buffer is what make([]byte, length) was asked for
DecodeFrame(stream) ==
    IF RLen(stream) < frameHeaderSize
      THEN [opcode |-> U32(0, 0), payload |-> <<>>, err |-> "header", buf |-> NoBuffer]
      ELSE LET header == RTake(stream, frameHeaderSize)
               opcode == Uint32(RTake(header, 4))
               length == Uint32(RDrop(header, 4))
               rest   == RDrop(stream, frameHeaderSize)
           IN  IF lengthTooLarge(length)
                 THEN [opcode |-> U32(0, 0), payload |-> <<>>,
                       err |-> "ErrPayloadTooLarge", buf |-> NoBuffer]
               ELSE IF ShortOf(rest, length)
                 THEN [opcode |-> U32(0, 0), payload |-> <<>>, err |-> "payload",
                       buf |-> Buffer(length)]
               ELSE [opcode |-> opcode,
                     payload |-> RTake(rest, length.hi * 65536 + length.lo),
                     err |-> "nil", buf |-> Buffer(length)]

\* inputs: opcodes over the whole uint32 range, lengths around the byte,
\* halfword and limit boundaries, payloads of one or two runs
Opcodes ==
    {U32(0, 0), U32(0, 1), U32(0, 2), U32(0, 3), U32(0, 256), U32(1, 0),
     U32(32768, 0), U32(65535, 65535)}

Lengths ==
    {v + d : v \in {0, 256, 65536, MaxPayloadSize}, d \in 0..FrameDelta}
      \cup {v - d : v \in {256, 65536, MaxPayloadSize}, d \in 1..FrameDelta}

Payloads ==
    {<<>>}
      \cup {<<[b |-> x, n |-> l]>> : x \in {0, 255}, l \in Lengths \ {0}}
      \cup {<<[b |-> 1, n |-> l - 1], [b |-> 2, n |-> 1]>> : l \in Lengths \ {0, 1}}

Declared ==
    {ToU32(l) : l \in Lengths} \cup {U32(17, 0), U32(32768, 0), U32(65535, 65535)}

NoFrameIn ==
    [by |-> "", opcode |-> U32(0, 0), payload |-> <<>>, declared |-> U32(0, 0)]
NoEnc == [frame |-> <<>>, err |-> ""]
NoDec == [opcode |-> U32(0, 0), payload |-> <<>>, err |-> "", buf |-> NoBuffer]

\* the client encodes a frame; a frame built is what the peer's reader gets
EncodeFrame_call ==
    /\ frPc \in {"start", "decoded"}
    /\ \E opcode \in Opcodes, payload \in Payloads :
         LET e == EncodeFrame(opcode, payload)
         IN  /\ frIn' = [by |-> "EncodeFrame", opcode |-> opcode, payload |-> payload,
                         declared |-> ToU32(RLen(payload))]
             /\ frEnc' = e
             /\ frStream' = e.frame
    /\ frPc' = "encoded"
    /\ frDec' = NoDec
    /\ UNCHANGED notFrameVars

\* the peer sends bytes of its own: a header declaring a length, followed by
\* some bytes, possibly cut short
Peer_sends ==
    /\ frPc \in {"start", "decoded"}
    /\ \E opcode \in {U32(0, 1), U32(0, 2), U32(65535, 65535)}, declared \in Declared,
          body \in {<<>>, <<[b |-> 9, n |-> 300]>>, <<[b |-> 9, n |-> MaxPayloadSize + 1]>>},
          cut \in {5, 8, 8 + 300, 8 + MaxPayloadSize + 1} :
         /\ frIn' = [by |-> "peer", opcode |-> opcode, payload |-> body,
                     declared |-> declared]
         /\ frStream' = RTake(PutUint32(opcode) \o PutUint32(declared) \o body, cut)
    /\ frEnc' = NoEnc
    /\ frPc' = "received"
    /\ frDec' = NoDec
    /\ UNCHANGED notFrameVars

\* DecodeFrame on what was built or received
DecodeFrame_call ==
    /\ \/ frPc = "encoded" /\ frEnc.err = "nil"
       \/ frPc = "received"
    /\ frDec' = DecodeFrame(frStream)
    /\ frPc' = "decoded"
    /\ UNCHANGED <<frIn, frEnc, frStream>>
    /\ UNCHANGED notFrameVars

InitFrame ==
    /\ frPc = "start"
    /\ frIn = NoFrameIn
    /\ frEnc = NoEnc
    /\ frStream = <<>>
    /\ frDec = NoDec

NextFrame ==
    \/ EncodeFrame_call
    \/ Peer_sends
    \/ DecodeFrame_call

(***************************************************************************)
(* Cached JSONL parsing: src/internal/session/watcher_test.go              *)
(* (internal/session/jsonl.go).  A file is a sequence of bytes: "n" is the *)
(* newline, and a line is a JSON entry exactly when it is "aa" (model a,   *)
(* one input token) or "bb" (model b, two input tokens); every other       *)
(* non-empty line is malformed.                                            *)
(***************************************************************************)

JsonlBytes == {"a", "b", "n"}

\* JSONLData{}: the token sum, the latest model and the models in the order
\* first seen (the other counters are summed the same way as InputTokens)
EmptyJSONLData == [InputTokens |-> 0, Model |-> "", UniqueModels |-> <<>>]

\* bufio.Scanner with ScanLines: the lines between newlines, and the last
\* line also when no newline ends it, unless it is empty
RECURSIVE scanLines(_, _)
scanLines(bytes, line) ==
    IF bytes = <<>>
      THEN IF line = <<>> THEN <<>> ELSE <<line>>
    ELSE IF Head(bytes) = "n"
      THEN <<line>> \o scanLines(Tail(bytes), <<>>)
    ELSE scanLines(Tail(bytes), Append(line, Head(bytes)))

\* json.Unmarshal(line, &entry) succeeds
validEntry(line) ==
    /\ Len(line) = 2
    /\ line[1] = line[2]
    /\ line[1] \in {"a", "b"}

entryModel(line) == line[1]
entryInputTokens(line) == IF line[1] = "a" THEN 1 ELSE 2

\* the body of the scan loop for one line: empty and malformed lines are
\* skipped; the sums, data.Model and data.UniqueModels otherwise
scanOne(data, line) ==
    IF line = <<>> \/ ~validEntry(line)
      THEN data
      ELSE [InputTokens |-> data.InputTokens + entryInputTokens(line),
            Model |-> entryModel(line),
            UniqueModels |->
                IF \E i \in 1..Len(data.UniqueModels) :
                       data.UniqueModels[i] = entryModel(line)
                  THEN data.UniqueModels
                  ELSE Append(data.UniqueModels, entryModel(line))]

\* for scanner.Scan() { ... } from the accumulated data on
RECURSIVE scanLoop(_, _)
scanLoop(data, lines) ==
    IF lines = <<>> THEN data
    ELSE scanLoop(scanOne(data, Head(lines)), Tail(lines))

\* ParseJSONL of a file that exists (seenModels holds exactly the models of
\* data.UniqueModels)
ParseJSONL(bytes) == scanLoop(EmptyJSONLData, scanLines(bytes, <<>>))

\* what the scanner reads after f.Seek(offset, io.SeekStart): the bytes from
\* the offset to the end of the file as it is when it is read
readFrom(bytes, offset) ==
    IF offset >= Len(bytes) THEN <<>> ELSE SubSeq(bytes, offset + 1, Len(bytes))

\* what a writer appends in one write: whole lines, or part of a line
AppendWrites ==
    {<<"a", "a", "n">>, <<"b", "b", "n">>, <<"a", "b", "n">>, <<"a">>, <<"a", "n">>}

\* what os.WriteFile or a rotation leaves at the path
RotatedFiles ==
    {<<>>, <<"a", "a", "n">>, <<"b", "b", "n">>, <<"b", "b", "n", "a", "a", "n">>}

\* the session's writer appends to the file
JsonlAppend ==
    /\ jlPc \in {"idle", "scan"}
    /\ jlChanges < MaxJsonlChanges
    /\ \E w \in AppendWrites :
         /\ Len(jlFile) + Len(w) <= MaxJsonlLen
         /\ jlFile' = jlFile \o w
    /\ jlChanges' = jlChanges + 1
    /\ UNCHANGED <<jlLastSize, jlLastData, jlPc, jlSize, jlRes, jlCalls>>
    /\ UNCHANGED notJsonlVars

\* the file is truncated and rewritten, or rotated
JsonlRewrite ==
    /\ jlPc \in {"idle", "scan"}
    /\ jlChanges < MaxJsonlChanges
    /\ \E f \in RotatedFiles : f # jlFile /\ jlFile' = f
    /\ jlChanges' = jlChanges + 1
    /\ UNCHANGED <<jlLastSize, jlLastData, jlPc, jlSize, jlRes, jlCalls>>
    /\ UNCHANGED notJsonlVars

\* ParseJSONLCached up to the scan: os.Open, f.Stat, the reset of the cache
\* when the file shrank, the return of the cached data when the size is the
\* cached one
ParseJSONLCached_stat ==
    /\ jlPc = "idle"
    /\ jlCalls < MaxJsonlCalls
    /\ jlCalls' = jlCalls + 1
    /\ LET currentSize == Len(jlFile)
           shrunk == currentSize < jlLastSize
           lastSize == IF shrunk THEN 0 ELSE jlLastSize
           lastData == IF shrunk THEN EmptyJSONLData ELSE jlLastData
       IN  /\ jlSize' = currentSize
           /\ jlLastSize' = lastSize
           /\ jlLastData' = lastData
           /\ IF currentSize = lastSize
                THEN /\ jlRes' = lastData
                     /\ jlPc' = "idle"
                ELSE /\ jlPc' = "scan"
                     /\ UNCHANGED jlRes
    /\ UNCHANGED <<jlFile, jlChanges>>
    /\ UNCHANGED notJsonlVars

\* ParseJSONLCached from the seek on: f.Seek(cache.lastSize), the scan loop
\* to the end of the file, cache.lastSize = currentSize, cache.lastData = data
ParseJSONLCached_scan ==
    /\ jlPc = "scan"
    /\ LET data == scanLoop(jlLastData, scanLines(readFrom(jlFile, jlLastSize), <<>>))
       IN  /\ jlLastSize' = jlSize
           /\ jlLastData' = data
           /\ jlRes' = data
    /\ jlPc' = "idle"
    /\ UNCHANGED <<jlFile, jlSize, jlCalls, jlChanges>>
    /\ UNCHANGED notJsonlVars

\* NewJSONLCache(path) for a file that exists
InitJsonl ==
    /\ jlFile \in {<<>>, <<"a", "a", "n">>}
    /\ jlLastSize = 0
    /\ jlLastData = EmptyJSONLData
    /\ jlPc = "idle"
    /\ jlSize = 0
    /\ jlRes = EmptyJSONLData
    /\ jlCalls = 0
    /\ jlChanges = 0

\* no cache in use
InitJsonlIdle ==
    /\ jlFile = <<>>
    /\ jlLastSize = 0
    /\ jlLastData = EmptyJSONLData
    /\ jlPc = "off"
    /\ jlSize = 0
    /\ jlRes = EmptyJSONLData
    /\ jlCalls = 0
    /\ jlChanges = 0

NextJsonl ==
    \/ JsonlAppend
    \/ JsonlRewrite
    \/ ParseJSONLCached_stat
    \/ ParseJSONLCached_scan

(***************************************************************************)
(* Specifications.                                                         *)
(***************************************************************************)
InitSpecPid == InitPid /\ InitWatcherIdle /\ InitLoopIdle /\ InitStoreIdle /\ InitResolveIdle /\ InitBuildIdle /\ InitClient /\ InitSendIdle /\ InitRetry /\ InitShutdown /\ InitCleanup /\ InitAtomicIdle /\ InitFrame /\ InitJsonlIdle

SpecPid == InitSpecPid /\ [][NextPid]_vars

InitSpecWatcher == InitWatcher /\ InitPidIdle /\ InitLoopIdle /\ InitStoreIdle /\ InitResolveIdle /\ InitBuildIdle /\ InitClient /\ InitSendIdle /\ InitRetry /\ InitShutdown /\ InitCleanup /\ InitAtomicIdle /\ InitFrame /\ InitJsonlIdle

SpecWatcher == InitSpecWatcher /\ [][NextWatcher]_vars

InitSpecLoop == InitLoop /\ InitPidIdle /\ InitWatcherIdle /\ InitStoreIdle /\ InitResolveIdle /\ InitBuildIdle /\ InitClient /\ InitSendIdle /\ InitRetry /\ InitShutdown /\ InitCleanup /\ InitAtomicIdle /\ InitFrame /\ InitJsonlIdle

SpecLoop == InitSpecLoop /\ [][NextLoop]_vars

InitSpecStore == InitStore /\ InitPidIdle /\ InitWatcherIdle /\ InitLoopIdle /\ InitResolveIdle /\ InitBuildIdle /\ InitClient /\ InitSendIdle /\ InitRetry /\ InitShutdown /\ InitCleanup /\ InitAtomicIdle /\ InitFrame /\ InitJsonlIdle

SpecStore == InitSpecStore /\ [][NextStore]_vars

InitSpecResolve ==
    /\ InitResolve /\ InitPidIdle /\ InitWatcherIdle /\ InitLoopIdle /\ InitStoreIdle
    /\ InitBuildIdle /\ InitClient /\ InitSendIdle /\ InitRetry /\ InitShutdown /\ InitCleanup /\ InitAtomicIdle /\ InitFrame /\ InitJsonlIdle

SpecResolve == InitSpecResolve /\ [][NextResolve]_vars

InitSpecBuild ==
    /\ InitBuild /\ InitPidIdle /\ InitWatcherIdle /\ InitLoopIdle /\ InitStoreIdle
    /\ InitResolveIdle /\ InitClient /\ InitSendIdle /\ InitRetry /\ InitShutdown /\ InitCleanup /\ InitAtomicIdle /\ InitFrame /\ InitJsonlIdle

SpecBuild == InitSpecBuild /\ [][NextBuild]_vars

InitSpecClient ==
    /\ InitClient /\ InitPidIdle /\ InitWatcherIdle /\ InitLoopIdle /\ InitStoreIdle
    /\ InitResolveIdle /\ InitBuildIdle /\ InitSendIdle /\ InitRetry /\ InitShutdown /\ InitCleanup /\ InitAtomicIdle /\ InitFrame /\ InitJsonlIdle

SpecClient == InitSpecClient /\ [][NextClient]_vars

InitSpecSend ==
    /\ InitSend /\ InitPidIdle /\ InitWatcherIdle /\ InitLoopIdle /\ InitStoreIdle
    /\ InitResolveIdle /\ InitBuildIdle /\ InitClient /\ InitRetry /\ InitShutdown /\ InitCleanup /\ InitAtomicIdle /\ InitFrame /\ InitJsonlIdle

SpecSend == InitSpecSend /\ [][NextSend]_vars

\* every section other than the connect attempt chain at rest
InitSpecRetry ==
    /\ InitRetry /\ InitPidIdle /\ InitWatcherIdle /\ InitLoopIdle /\ InitStoreIdle
    /\ InitResolveIdle /\ InitBuildIdle /\ InitClient /\ InitSendIdle /\ InitShutdown /\ InitCleanup /\ InitAtomicIdle /\ InitFrame /\ InitJsonlIdle

SpecRetry == InitSpecRetry /\ [][NextRetry]_vars

InitSpecShutdown ==
    /\ InitShutdown /\ InitPidIdle /\ InitWatcherIdle /\ InitLoopIdle /\ InitStoreIdle
    /\ InitResolveIdle /\ InitBuildIdle /\ InitClient /\ InitSendIdle /\ InitRetry /\ InitCleanup /\ InitAtomicIdle /\ InitFrame /\ InitJsonlIdle

InitSpecCleanup ==
    /\ InitCleanup /\ InitPidIdle /\ InitWatcherIdle /\ InitLoopIdle /\ InitStoreIdle
    /\ InitResolveIdle /\ InitBuildIdle /\ InitClient /\ InitSendIdle /\ InitRetry
    /\ InitShutdown /\ InitAtomicIdle /\ InitFrame /\ InitJsonlIdle

SpecCleanup == InitSpecCleanup /\ [][NextCleanup]_vars

InitSpecAtomic ==
    /\ InitAtomic /\ InitPidIdle /\ InitWatcherIdle /\ InitLoopIdle /\ InitStoreIdle
    /\ InitResolveIdle /\ InitBuildIdle /\ InitClient /\ InitSendIdle /\ InitRetry
    /\ InitShutdown /\ InitCleanup /\ InitFrame /\ InitJsonlIdle

SpecAtomic == InitSpecAtomic /\ [][NextAtomic]_vars

InitSpecFrame ==
    /\ InitFrame /\ InitPidIdle /\ InitWatcherIdle /\ InitLoopIdle /\ InitStoreIdle
    /\ InitResolveIdle /\ InitBuildIdle /\ InitClient /\ InitSendIdle /\ InitRetry
    /\ InitShutdown /\ InitAtomicIdle /\ InitCleanup /\ InitJsonlIdle

SpecFrame == InitSpecFrame /\ [][NextFrame]_vars

InitSpecJsonl ==
    /\ InitJsonl /\ InitPidIdle /\ InitWatcherIdle /\ InitLoopIdle /\ InitStoreIdle
    /\ InitResolveIdle /\ InitBuildIdle /\ InitClient /\ InitSendIdle /\ InitRetry
    /\ InitShutdown /\ InitAtomicIdle /\ InitFrame /\ InitCleanup

SpecJsonl == InitSpecJsonl /\ [][NextJsonl]_vars

\* The goroutine of main runs whenever it can, and select takes a case at
\* random among the ready ones, so a signal that stays pending is taken.
SpecShutdown ==
    /\ InitSpecShutdown
    /\ [][NextShutdown]_vars
    /\ WF_vars(LoopStep)
    /\ WF_vars(DeferredStep)
    /\ SF_vars(select_signal)

(***************************************************************************)
(* C2: after Watcher.Close() has returned no further signal is emitted on  *)
(* the Events() channel, not even by a native-notification or polling      *)
(* callback that was already in flight when Close ran.                     *)
(***************************************************************************)
CloseReturned == \E c \in Closers : cpc[c] = "returned"

C2_NoSignalAfterClose ==
    [][CloseReturned => ~(wEvents' > wEvents)]_vars


(***************************************************************************)
(* C1: for one data directory at most one daemon process at a time is past *)
(* startup (holds the PID-file lock and runs the event loop): two          *)
(* concurrently starting processes never both proceed.                     *)
(***************************************************************************)
PastStartup(p) == pc[p] = "running"

C1_SingleInstance ==
    \A p, q \in Procs : (PastStartup(p) /\ PastStartup(q)) => p = q

(***************************************************************************)
(* C9: removePID deletes the PID file only if the token stored in it still *)
(* equals the token this instance wrote: a step of removePID that unlinks  *)
(* the file never unlinks a file holding another instance's token.         *)
(***************************************************************************)
C9_RemoveOnlyOwnFile ==
    [][\A p \in Procs :
          (pc[p] = "rm_remove" /\ pc'[p] = "exited" /\ pidPath # NoInode /\ pidPath' = NoInode)
             => tokenMatches(content[pidPath], pidToken(p))]_vars

(***************************************************************************)
(* C10: a process that dies on a fatal path (data directory not created,   *)
(* single-instance lock not taken, IPC connection not established) exits   *)
(* with a non-zero status and leaves no partial state: it holds no lock    *)
(* and the PID file does not carry the token it wrote.                     *)
(***************************************************************************)
FatalPaths == {"mkdir", "alive", "lock", "connect"}

C10_FatalExitLeavesNothing ==
    \A p \in Procs :
        (pc[p] = "exited" /\ exitWhy[p] \in FatalPaths) =>
            /\ exitCode[p] # 0
            /\ \A i \in Inodes : lockHolder[i] # p
            /\ ~(pidPath # NoInode /\ tokenMatches(content[pidPath], pidToken(p)))

(***************************************************************************)
(* Claims about the IPC client and the event loop, under SpecLoop.         *)
(***************************************************************************)
lastFrame == obs.frames[Len(obs.frames)]

\* C3: after SetActivity or ClearActivity returns a write error, the client
\* is back in Disconnected: Connected() reports false.
C3_WriteErrorDisconnects ==
    (/\ Len(obs.frames) > 0
     /\ lastFrame.by \in {"SetActivity", "ClearActivity"}
     /\ lastFrame.err = "write")
        => ~obs.connAfterSend

\* C4: a poll tick that finds the connection to the presence service
\* dropped runs the bounded-retry reconnect in that tick.
C4_TickReconnects ==
    (obs.step = "tick" /\ obs.dropped /\ ~obs.idleExit) => obs.reconnectTried

\* C5 as stated: consecutive resolve cycles that build identical payloads
\* result in at most one SetActivity send.
C5_OneSendPerRun == obs.runSends <= 1

\* C5 as amended: consecutive resolve cycles that build identical payloads,
\* with no (re)connect of the client between them, result in at most one
\* SetActivity send.
C5_OneSendPerRunAndConnection == obs.connSends <= 1

\* a cycle built the payload of the cycle before it and sent nothing
C5_Suppressed == obs.suppressed /\ obs.connSends = 1

\* C6: a cycle whose resolved state is stopped, or in an ignored directory,
\* publishes no payload and leaves the presence cleared, in every idle mode.
C6_HiddenStateShowsNothing ==
    obs.hidden \in {"stopped", "ignored"}
        => /\ obs.activity.nil
           /\ sends(obs.frames) = 0
           /\ ls.idleCleared

\* C7: no SetActivity for a client's state is sent over a connection that
\* was handshaken with another application id than the client resolves to.
C7_PublishUnderOwnAppID ==
    \A i \in 1..Len(obs.frames) :
        (obs.frames[i].by = "SetActivity" /\ obs.frames[i].err = "")
            => obs.frames[i].app = resolveDiscordAppID(obs.frames[i].forClient)

\* C8: with daemon_idle_minutes > 0, once the only session has been stopped
\* for longer than the timeout, a poll tick makes the daemon exit, in every
\* idle mode (the loop has published before, so lastActivityTime is set).
C8_DaemonIdleExit ==
    ~(/\ lpc = "select"
      /\ obs.step = "tick"
      /\ cfg.daemonIdle > 0
      /\ ls.lastActivityTime # ZeroTime
      /\ ~cur.nil
      /\ cur.stopped
      /\ cur.age > cfg.daemonIdle)

(***************************************************************************)
(* Claims about the watcher's signalling, under SpecWatcher.               *)
(***************************************************************************)
\* C11: the events channel never holds more than one pending signal, a
\* producer standing at notify() can always take its step, and a signal
\* dropped by notify() leaves the one pending wake-up in place.
C11_OnePendingSignal ==
    /\ wEvents \in {0, 1}
    /\ wDropped => wEvents = 1
    /\ wg = "notify" => ENABLED watchDir_notify
    /\ wg = "pollNotify" => ENABLED pollDir_notify

\* several mutations happened, the last notify() was dropped, one wake-up pends
C11_Coalesced == wDropped /\ wEvents = 1 /\ mtime >= 2

PollPositions == {"pollInit", "pollSelect", "pollCmp", "pollNotify"}

\* C12: once the watcher has fallen back (at construction or after a native
\* error) Polling() is true and the native watcher is gone; every poll that
\* finds the newest modification time past the value observed before
\* records it and emits a signal, and a poll that does not emits none.
C12_PollingFallback ==
    /\ [](wg \in PollPositions => (wPolling /\ wFsw = "nil" /\ ~FswOpen))
    /\ [](wg = "pollSelect" => lastMod >= seenMod)
    /\ [][(wg = "pollCmp" /\ wg' # wg)
            => IF seenMod > lastMod
                 THEN wg' = "pollNotify" /\ lastMod' = seenMod
                 ELSE wg' = "pollSelect" /\ lastMod' = lastMod]_vars
    /\ [][(wg = "pollNotify" /\ wg' # wg) => wEvents' = 1]_vars

\* after a native error the poller saw a newer modification time and is
\* about to signal it
C12_PollSawChange ==
    /\ wg = "pollNotify"
    /\ wPolling
    /\ fswClosed >= 1
    /\ lastMod = mtime
    /\ lastMod > 0

(***************************************************************************)
(* C13: for a state file whose bytes are malformed, ReadState returns both *)
(* a non-nil error and a fresh state at the current version, writes that   *)
(* fresh state to the path, and leaves the original bytes recoverable at   *)
(* <path>.corrupted.  The two writes are stated for the runs in which the  *)
(* file system carries them out: what ReadState returns does not depend on *)
(* them.                                                                   *)
(***************************************************************************)
ReadMalformed ==
    /\ stRes.op = "read"
    /\ stRes.done
    /\ ~stRes.data.nil
    /\ ~stRes.data.ok

ReadFuture ==
    /\ stRes.op = "read"
    /\ stRes.done
    /\ stRes.data.ok
    /\ stRes.data.version > CurrentVersion

Normalized(n) ==
    /\ ~stRes.err
    /\ ~stRes.state.nil
    /\ stRes.state.version = CurrentVersion
    /\ stRes.state.body = stRes.data.body
    /\ ~stRes.saveErr =>
          stRes.wrote.version = CurrentVersion /\ stRes.wrote.body = stRes.data.body
    /\ ~stRes.backupErr => stBak[n] = stRes.data

NewerMigrations ==
    {i \in 1..Len(stMig) : stMig[i].version > stRes.data.version}

Archived(bytes) ==
    \/ stCorrupted = bytes
    \/ \E n \in DOMAIN stBak : stBak[n] = bytes

C15_ReplacedBytesArchived ==
    [][(stPc \in {"recoverSave", "normalizeSave"} /\ stPc' = "idle" /\ stFile' # stFile)
          => Archived(stFile)]_vars

(***************************************************************************)
(* C17: when a stored state is behind registered migrations, those whose   *)
(* version is greater than the stored version are applied one at a time in *)
(* strictly ascending version order, whatever the registration order, and  *)
(* the others are skipped; if a migration fails no later migration is      *)
(* applied and that read fails with no state returned.                     *)
(***************************************************************************)
ReadParsed ==
    /\ stRes.op = "read"
    /\ ~stRes.data.nil
    /\ stRes.data.ok

StoredVersion == IF stRes.data.version = 0 THEN 1 ELSE stRes.data.version

\* the upgrades due from version v on, lowest first, up to the first that fails
RECURSIVE DueFrom(_)
DueFrom(v) ==
    IF v > MaxVersion THEN <<>>
    ELSE IF \E i \in 1..Len(stMig) : stMig[i].version = v
      THEN IF \E i \in 1..Len(stMig) : stMig[i].version = v /\ stMig[i].fails
             THEN <<v>>
             ELSE <<v>> \o DueFrom(v + 1)
      ELSE DueFrom(v + 1)

C17_MigrationsAscending ==
    ReadParsed =>
        /\ stRes.calls = DueFrom(StoredVersion + 1)
        /\ (\E i \in 1..Len(stMig) : stMig[i].version > StoredVersion /\ stMig[i].fails
                /\ stMig[i].version = stRes.calls[Len(stRes.calls)])
              => /\ stRes.done /\ stRes.err /\ stRes.state.nil
                 /\ stRes.wrote = NoFile
        /\ (stRes.done /\ ~stRes.err) => stRes.state.trail = stRes.data.trail \o stRes.calls

C17_AppliedOutOfRegistrationOrder ==
    /\ ReadParsed
    /\ stRes.done /\ ~stRes.err
    /\ Len(stMig) = 2 /\ stMig[1].version > stMig[2].version
    /\ stRes.calls = <<stMig[2].version, stMig[1].version>>

(***************************************************************************)
(* C16: given the per-client state files in the data directory, resolution *)
(* returns the state with the numerically greatest last-activity           *)
(* timestamp, whatever the order in which the files are enumerated.        *)
(***************************************************************************)
\* the per-client files ReadState yields a state for
Candidates == {i \in 1..Len(rsMatches) : ~rsMatches[i].nil}

C16_LatestWins ==
    (rsPc = "done" /\ Candidates # {}) =>
        /\ ~rsResult.nil
        /\ \E i \in Candidates :
              /\ rsResult.client = rsMatches[i].client
              /\ rsResult.lastActivity = rsMatches[i].lastActivity
        /\ \A i \in Candidates : rsResult.lastActivity >= rsMatches[i].lastActivity

C16_LatestInTheMiddle ==
    /\ rsPc = "done"
    /\ Len(rsMatches) = 3
    /\ Candidates = {1, 2, 3}
    /\ rsMatches[2].lastActivity > rsMatches[1].lastActivity
    /\ rsMatches[2].lastActivity > rsMatches[3].lastActivity
    /\ rsResult.client = rsMatches[2].client

(***************************************************************************)
(* C18: build returns nil exactly when the state is stopped, or its        *)
(* working directory matches an ignore glob, or the session is idle (now - *)
(* lastActivity > idleMinutes*60) and the idle mode is not idle_text;      *)
(* under idle_text an idle session yields the static idle payload, and a   *)
(* non-stopped, non-ignored state with recent-enough activity never yields *)
(* nil.                                                                    *)
(***************************************************************************)
Hidden == bdState.stopped \/ bdState.cwd \in IgnoredPatterns

IdlePayload == [nil |-> FALSE, text |-> "idle", image |-> DefaultLargeImage]

BuildContract(idle) ==
    bdPc = "returned" =>
        /\ bdResult.nil <=> (Hidden \/ (idle /\ bdCfg.idleMode # "idle_text"))
        /\ (~Hidden /\ idle /\ bdCfg.idleMode = "idle_text") => bdResult = IdlePayload
        /\ (~Hidden /\ ~idle) => (~bdResult.nil /\ bdResult.text = bdState.text)

C18_NilExactlyWhenHiddenOrIdle == BuildContract(bdState.age > bdCfg.idleMinutes)

\* C18, amended: idle means that idle detection is on (idleMinutes > 0) and
\* now - lastActivity > idleMinutes*60; with idleMinutes = 0 no session is idle.
C18_NilExactlyWhenHiddenOrIdleEnabled ==
    BuildContract(bdCfg.idleMinutes > 0 /\ bdState.age > bdCfg.idleMinutes)

C18_IdleTextPayload ==
    /\ bdPc = "returned"
    /\ ~Hidden
    /\ bdCfg.idleMinutes > 0 /\ bdState.age > bdCfg.idleMinutes
    /\ bdCfg.idleMode = "idle_text"
    /\ bdResult = IdlePayload

(***************************************************************************)
(* C19: in idle mode last_activity, when the session becomes idle the      *)
(* build step returns nil and the event loop keeps showing its previously  *)
(* cached non-nil payload rather than clearing presence: a cycle over an   *)
(* idle session sends no ClearActivity, settles on the cached payload and  *)
(* keeps it cached.                                                        *)
(***************************************************************************)
IdleSession(s) ==
    /\ ~s.nil
    /\ hiddenBy(s) = ""
    /\ isIdle(cfg.idleMinutes, s.age)

NoClear(frames) == \A i \in 1..Len(frames) : frames[i].by # "ClearActivity"

C19_IdleKeepsLastActivity ==
    [][((run_init \/ run_watchEvent \/ run_tick)
          /\ cfg.idleMode = "last_activity"
          /\ IdleSession(cur')
          /\ ~ls.lastActivity.nil
          /\ obs'.end \notin {"nostate", "connfail"})
        => /\ obs'.runPayload.nil
           /\ obs'.activity = ls.lastActivity
           /\ NoClear(obs'.frames)
           /\ ls'.lastActivity = ls.lastActivity
           /\ ~ls'.idleCleared]_vars

C19_CachedShownWhileIdle ==
    /\ obs.step = "tick"
    /\ cfg.idleMode = "last_activity"
    /\ IdleSession(cur)
    /\ obs.runPayload.nil
    /\ ~obs.activity.nil
    /\ obs.activity = ls.lastActivity
    /\ obs.end = "same"
    /\ Connected(dclient)

(***************************************************************************)
(* C20: Connect succeeds only if the handshake response frame decodes to   *)
(* something other than an error event: for every response whose event is  *)
(* ERROR, and for every response that cannot be read or decoded, Connect   *)
(* returns an error and leaves the client Disconnected with the endpoint   *)
(* handle closed.                                                          *)
(***************************************************************************)
\* the handshake frame went out and the peer's answer was unreadable,
\* undecodable, or an ERROR event
Rejecting(p) ==
    /\ p.reach /\ p.write
    /\ \/ ~p.frame
       \/ ~p.json
       \/ p.evt = "ERROR"

C20_ConnectRejectsErrors ==
    hsRet \in {"nil", "error", "panic"} =>
        /\ hsRet = "nil" =>
              /\ hsPeer.frame /\ hsPeer.json /\ hsPeer.evt # "ERROR"
              /\ hsConn # NoHandle /\ hsConn \in hsOpen
        /\ Rejecting(hsPeer) =>
              /\ hsRet = "error"
              /\ hsConn = NoHandle
              /\ hsOpen = {}

(***************************************************************************)
(* C21: the nonces carried by the command frames a client writes are       *)
(* strictly increasing in the order the frames are written, so no two      *)
(* commands ever carry the same nonce, also when SetActivity,              *)
(* ClearActivity and Close are invoked concurrently.                       *)
(***************************************************************************)
C21_NoncesIncrease ==
    \A i, j \in 1..Len(snWire) : i < j => snWire[i].nonce < snWire[j].nonce

C21_TwoCallersWrote ==
    /\ Len(snWire) >= 2
    /\ snWire[1].by # snWire[2].by
    /\ snWire[2].method = "Close"
    /\ snWire[1].nonce < snWire[2].nonce

(***************************************************************************)
(* C22: all operations on the client's connection handle and nonce         *)
(* (Connect, SetActivity, ClearActivity, Close, Connected) are mutually    *)
(* exclusive: a reconnect or close never runs concurrently with a send on  *)
(* the same handle, so no frame is written to a handle that has been       *)
(* closed or replaced, and frames of concurrent sends are not interleaved. *)
(***************************************************************************)
InsideNow == {t \in Callers : snPc[t] \in Inside}

C22_MutuallyExclusive ==
    /\ Cardinality(InsideNow) <= 1
    /\ \A t \in InsideNow : snMu = t
    /\ \A i \in 1..Len(snWire) :
          /\ snWire[i].held
          /\ snWire[i].open
          /\ snWire[i].h # NoHandle
    /\ snConn # NoHandle => snConn \in snOpen

C22_SendWaitsForReconnect ==
    \E t, u \in Callers :
        /\ snOp[t] = "Connect" /\ snPc[t] = "handshake"
        /\ snOp[u] \in {"SetActivity", "ClearActivity"} /\ snPc[u] = "lock"
        /\ Len(snWire) >= 1

(***************************************************************************)
(* C23: the handshake response read is bounded by a timeout: Connect       *)
(* returns (with an error) within bounded time even when the peer accepts  *)
(* the connection but never sends a response frame, so a connect attempt   *)
(* never blocks the event loop forever.  As a property of single states:   *)
(* whenever Connect waits in the handshake read, the read can return.      *)
(***************************************************************************)
C23_HandshakeReadReturns == crPc = "read" => ENABLED handshake_read

(***************************************************************************)
(* C24: the connect attempt chain is bounded: connectWithRetry makes at    *)
(* most 10 connect attempts, returns success at the first attempt that     *)
(* succeeds, sleeps the fixed interval only between failed attempts, and   *)
(* returns an error after the 10th failure.                                *)
(***************************************************************************)
C24_AttemptChainBounded ==
    /\ crAttempts <= 10
    /\ crPc = "sleep" => crAttempts < 10
    /\ crPc \in {"loop", "dial", "read", "connected", "failed"} =>
          crSleeps = (IF crPc = "loop" /\ crAttempts = 10 THEN 9
                      ELSE IF crPc = "loop" THEN crAttempts ELSE crAttempts - 1)
    /\ crPc = "connected" => ENABLED connectWithRetry_success
    /\ crRet = "nil" => crPeer = "ready" /\ crSleeps = crAttempts - 1
    /\ crRet = "error" => crAttempts = 10 /\ crSleeps = 9
    /\ (crPc = "loop" /\ crAttempts = 10) => ~ENABLED connectWithRetry_attempt

C24_SucceededAtThird ==
    /\ crRet = "nil"
    /\ crAttempts = 3
    /\ crSleeps = 2

(***************************************************************************)
(* C25: after an OS interrupt/terminate signal is delivered, the event     *)
(* loop eventually exits and the shutdown sequence runs (watcher closed,   *)
(* client closed with a best-effort clear, PID lock released and PID file  *)
(* removed), whatever the loop is doing when the signal arrives.           *)
(***************************************************************************)
ShutDown ==
    /\ sdPc = "exited"
    /\ sdWatcher = "closed"
    /\ ~sdConn
    /\ sdPid = "removed"

C25_SignalShutsDown == sdSig ~> ShutDown

(***************************************************************************)
(* C26: orphan-session cleanup scans the sessions directory at most once   *)
(* per 10-minute interval however often it is called: two scans are at     *)
(* least 10 minutes apart, and a call less than 10 minutes after a scan    *)
(* scans nothing and leaves every marker in place.                         *)
(***************************************************************************)
ScansApart ==
    \A i, j \in 1..Len(clScans) : i < j => clScans[j] - clScans[i] >= 10

CallInsideInterval ==
    /\ clCalls' = clCalls + 1
    /\ Len(clScans) > 0
    /\ clNow - clScans[Len(clScans)] < 10

C26_ScanOncePerInterval ==
    /\ []ScansApart
    /\ [][CallInsideInterval => clScans' = clScans /\ clFiles' = clFiles]_vars

\* a second scan has removed a marker that a call inside the interval left
C26_SecondScanRemoved ==
    /\ Len(clScans) = 2
    /\ clCalls >= 3
    /\ clNow = clScans[2]
    /\ \E m \in Markers : clFiles[m] = "none"
    /\ clDir

C28_RoundTrip ==
    (frPc \in {"encoded", "decoded"} /\ frIn.by = "EncodeFrame"
       /\ RLen(frIn.payload) <= 1048576)
      => /\ frEnc.err = "nil"
         /\ RLen(frEnc.frame) = 8 + RLen(frIn.payload)
         /\ frPc = "decoded"
              => /\ frDec.err = "nil"
                 /\ frDec.opcode = frIn.opcode
                 /\ Norm(frDec.payload) = Norm(frIn.payload)

\* an opcode of all ones with a payload of exactly 1 MiB ending in another byte
C28_LargestRoundTrip ==
    /\ frPc = "decoded"
    /\ frIn.by = "EncodeFrame"
    /\ frIn.opcode = U32(65535, 65535)
    /\ frIn.payload = <<[b |-> 1, n |-> 1048575], [b |-> 2, n |-> 1]>>
    /\ frDec.payload = frIn.payload

(***************************************************************************)
(* C29: EncodeFrame fails with ErrPayloadTooLarge exactly when the payload *)
(* is longer than 1 MiB (so it succeeds at exactly 1 MiB); DecodeFrame     *)
(* fails with ErrPayloadTooLarge whenever a complete header declares more  *)
(* than 1 MiB, and has then asked for no receive buffer.                   *)
(***************************************************************************)
DeclaresTooMuch ==
    frIn.declared.hi > 16 \/ (frIn.declared.hi = 16 /\ frIn.declared.lo > 0)

C29_PayloadTooLarge ==
    /\ (frPc \in {"encoded", "decoded"} /\ frIn.by = "EncodeFrame")
         => (frEnc.err = "ErrPayloadTooLarge" <=> RLen(frIn.payload) > 1048576)
              /\ frEnc.err \in {"nil", "ErrPayloadTooLarge"}
    /\ (frPc = "decoded" /\ RLen(frStream) >= 8 /\ DeclaresTooMuch)
         => frDec.err = "ErrPayloadTooLarge" /\ frDec.buf.none
    /\ (frPc = "decoded" /\ frDec.err = "ErrPayloadTooLarge") => DeclaresTooMuch

\* the peer declared 4 GiB - 1 and DecodeFrame refused it without a buffer
C29_HugeDeclaredRefused ==
    /\ frPc = "decoded"
    /\ frIn.by = "peer"
    /\ frIn.declared = U32(65535, 65535)
    /\ frDec.err = "ErrPayloadTooLarge"
    /\ frDec.buf.none

(***************************************************************************)
(* C30: Watcher.Close() is idempotent: however many callers call it, one   *)
(* after the other or at once, only one of them runs the body, w.done is   *)
(* never closed a second time, Close calls the native watcher's Close at   *)
(* most once, and once the body has run every other call returns without   *)
(* running it and without a panic, the watcher being closed.               *)
(***************************************************************************)
InCloseBody == {c \in Closers : cpc[c] \in {"cl_done", "cl_check", "cl_fsw"}}

\* the fallback to polling has closed the native watcher itself
ClosedByFallback == IF wPolling \/ wg \in {"fb_nil", "fb_poll"} THEN 1 ELSE 0

Unreadable == {i \in 1..Len(rsMatches) : rsMatches[i].nil /\ rsMatches[i].err}

C31_UnreadableSkipped ==
    /\ rsPc = "loop" =>
         ENABLED (findLatestState_step \/ findLatestState_return \/ findLatestState_legacy)
    /\ rsPc = "done" =>
         /\ rsRest = <<>>
         /\ IF 1..Len(rsMatches) \subseteq Unreadable
              THEN rsResult = rsLegacy
              ELSE /\ \E i \in (1..Len(rsMatches)) \ Unreadable :
                         rsResult = [rsMatches[i] EXCEPT !.err = FALSE]
                   /\ \A i \in (1..Len(rsMatches)) \ Unreadable :
                         rsResult.lastActivity >= rsMatches[i].lastActivity

\* the unreadable file came second of three and the third was the latest
C31_SkippedInTheMiddle ==
    /\ rsPc = "done"
    /\ Len(rsMatches) = 3
    /\ Unreadable = {2}
    /\ rsMatches[3].lastActivity > rsMatches[1].lastActivity
    /\ rsResult.client = rsMatches[3].client
    /\ ~rsResult.err

(***************************************************************************)
(* C32: a payload whose SetActivity send failed is not recorded as the     *)
(* last-sent payload: after a resolve cycle in which the send of the       *)
(* payload returned an error, ls.lastHash is not that payload's hash, so   *)
(* that a later cycle building the same payload sends it again.            *)
(***************************************************************************)
FailedSetActivity ==
    \E i \in 1..Len(obs.frames) :
        obs.frames[i].by = "SetActivity" /\ obs.frames[i].err # ""

C32_FailedSendNotRecorded ==
    (FailedSetActivity /\ ~obs.activity.nil) => ls.lastHash # Hash(obs.activity)

(***************************************************************************)
(* C33: while a daemon instance is running, the file at the PID path is    *)
(* the file that instance holds locked, with its <pid>:<token>: no step of *)
(* another process's checkStalePID or writePID removes the name of, or     *)
(* rewrites, the PID file of an instance that is running.                  *)
(***************************************************************************)
LiveOwner(q) ==
    /\ pc[q] = "running"
    /\ fd[q] # NoInode
    /\ pidPath = fd[q]
    /\ lockHolder[fd[q]] = q
    /\ content[fd[q]] = pidContent(q)

StartupStep(p) ==
    /\ pc[p] \in {"chk_open", "chk_lock", "chk_unlock", "chk_remove",
                  "wr_open", "wr_lock", "wr_trunc", "wr_write"}
    /\ pc'[p] # pc[p]

C33_LivePidFileKept ==
    [][\A p, q \in Procs :
          (p # q /\ LiveOwner(q) /\ StartupStep(p))
             => (pidPath' = pidPath /\ content'[fd[q]] = content[fd[q]])]_vars

(***************************************************************************)
(* C34: Close() running concurrently with the native-error fallback path   *)
(* never dereferences a nil handle and never closes the native handle      *)
(* twice: no caller of Close panics on w.fsw and the native watcher's      *)
(* Close is called at most once.                                           *)
(***************************************************************************)
C34_HandleAccessRaceFree ==
    /\ \A c \in Closers : cpc[c] # "panicked"
    /\ fswClosed <= 1

(***************************************************************************)
(* C35: no wake-up is lost: after any create or write of a state file the  *)
(* event loop, unless it has left the loop, eventually starts a resolve    *)
(* cycle after that mutation, even when the mutation's own signal was      *)
(* dropped because a signal was already pending.                           *)
(***************************************************************************)
LoopLeft == sdPc \in {"returned", "closeClient", "removePID", "exited"}

C35_NoLostWakeup ==
    \A n \in 1..MaxMutations : (sdMtime = n) ~> (sdSeen >= n \/ LoopLeft)

(***************************************************************************)
(* C36: the recovery rewrites of ReadState lose no update: when the state  *)
(* path has been rewritten between ReadState's read of the file and its    *)
(* saveState (of the fresh state after a corruption, or of the record      *)
(* normalized to the current version), the rewrite does not replace the    *)
(* newer contents by the state derived from the older ones.                *)
(***************************************************************************)
RewrittenSinceRead ==
    /\ stPc \in {"recoverSave", "normalizeSave"}
    /\ stFile # stData

C36_RecoveryKeepsNewerRecord ==
    [][(RewrittenSinceRead /\ stPc' = "idle") => stFile' = stFile]_vars

(***************************************************************************)
(* C37: when presence has to be cleared and the ClearActivity send fails,  *)
(* the idle period is not marked as cleared: after a resolve cycle whose   *)
(* ClearActivity returned an error, ls.idleCleared is false, so that the   *)
(* next cycle with a nil payload attempts the clear again.                 *)
(***************************************************************************)
FailedClearActivity ==
    \E i \in 1..Len(obs.frames) :
        obs.frames[i].by = "ClearActivity" /\ obs.frames[i].err # ""

C37_FailedClearNotMarked == FailedClearActivity => ~ls.idleCleared

(***************************************************************************)
(* C38: after a successful reconnect the last-sent hash is reset, so the   *)
(* next resolve cycle that builds a payload sends it on the new            *)
(* connection, also when it is the payload that was sent before the        *)
(* connection dropped.                                                     *)
(***************************************************************************)
AfterReconnect == obs.step = "tick" /\ obs.reconnectTried /\ lpc = "select"

CycleWithPayload ==
    /\ obs.step \in {"event", "tick"}
    /\ obs.end \notin {"nostate", "connfail"}
    /\ ~obs.activity.nil

Republished ==
    /\ sends(obs.frames) = 1
    /\ \A i \in 1..Len(obs.frames) :
          obs.frames[i].by = "SetActivity"
            => ~obs.frames[i].nil /\ obs.frames[i].app = dclient.conn.app

C38_ReconnectRepublishes ==
    [][AfterReconnect =>
          /\ ls.lastHash = ""
          /\ (lpc' # lpc \/ obs' # obs) /\ CycleWithPayload' => Republished']_vars

\* the payload sent before the drop is sent once more, as the first send of
\* the new connection, by the cycle that follows handleReconnect
C38_SamePayloadSentAgain ==
    /\ obs.step = "event" /\ obs.afterReconnect
    /\ obs.runSends = 2 /\ obs.connSends = 1
    /\ Len(obs.frames) = 1
    /\ obs.frames[1].by = "SetActivity" /\ obs.frames[1].err = ""

(***************************************************************************)
(* C39: within one continuous idle or stopped period the loop sends        *)
(* ClearActivity at most once: a cycle that starts with ls.idleCleared set *)
(* and ends without a payload sends no ClearActivity, and no cycle sends   *)
(* more than one.  The flag is reset only by a cycle that publishes a      *)
(* non-nil payload, and every cycle that ends with a payload leaves it     *)
(* reset, so that the next idle period clears again.                       *)
(***************************************************************************)
clears(frames) == Cardinality({i \in 1..Len(frames) : frames[i].by = "ClearActivity"})

ResolveCycle == run_init \/ run_watchEvent \/ run_tick

C39_ClearOncePerIdlePeriod ==
    [][ResolveCycle =>
          /\ clears(obs'.frames) <= 1
          /\ (ls.idleCleared /\ obs'.activity.nil) => clears(obs'.frames) = 0
          /\ (ls.idleCleared /\ ~ls'.idleCleared)
                => ~obs'.activity.nil /\ sends(obs'.frames) = 1
          /\ (~obs'.activity.nil /\ obs'.end \in {"same", "sent"})
                => ~ls'.idleCleared]_vars

\* a cycle of an idle period that was already cleared: no payload, no frame
C39_IdleCycleAfterClear ==
    /\ obs.step \in {"event", "tick"}
    /\ obs.end = "nil"
    /\ ls.idleCleared
    /\ obs.frames = <<>>

(***************************************************************************)
(* C40: whatever appends, truncations and rotations of the file are        *)
(* interleaved with the calls, every call of ParseJSONLCached returns the  *)
(* aggregated data that a full ParseJSONL of the file's contents at that   *)
(* moment returns.                                                         *)
(***************************************************************************)
ParseJSONLCached_returns ==
    \/ ParseJSONLCached_stat /\ jlPc' = "idle"
    \/ ParseJSONLCached_scan

C40_CachedEqualsFull ==
    [][ParseJSONLCached_returns => jlRes' = ParseJSONL(jlFile')]_vars

====
